---- MODULE Spec2Model ----
(***************************************************************************)
(* Model of the search route of search-app-v2 (src/app/api/search/route.ts)*)
(* and of the deterministic query analyzer it dispatches on                *)
(* (src/app/lib/search-analyzer.ts).                                       *)
(*                                                                         *)
(* One request is followed from the POST handler through the strategy      *)
(* executors, the concurrent sub-searches of the semantic strategy, fusion *)
(* and the final stock-aware sort.  The search backend is the environment: *)
(* every call it receives is answered by a hit list, by a reply without    *)
(* hits, or by a thrown error.                                             *)
(*                                                                         *)
(* Numbers.  JavaScript numbers are modelled as exact fixed-point          *)
(* rationals: a confidence c is the integer c * ConfUnit and a score s is  *)
(* the integer s * ScoreUnit.  All values the model reaches are exact in   *)
(* these units and stay below 2^31.                                        *)
(***************************************************************************)
EXTENDS Integers, Sequences, FiniteSets, TLC

VARIABLES
  pc,        \* where the POST handler stands
  request,   \* the request body
  analysis,  \* <<>> or <<the AnalysisResult>>
  concepts,  \* <<>> or <<the SemanticConcepts of the semantic strategy>>
  calls,     \* the backend calls issued so far, each with its reply
  branches,  \* the promises of the semantic strategy's sub-searches
  response   \* <<>> or <<the SearchResponse>>

vars == <<pc, request, analysis, concepts, calls, branches, response>>

(***************************************************************************)
(* Strings (JavaScript String methods used by the code)                    *)
(***************************************************************************)
LowerLetters == "abcdefghijklmnopqrstuvwxyz"
UpperLetters == "ABCDEFGHIJKLMNOPQRSTUVWXYZ"
DigitChars == "0123456789"

CharAt(s, i) == SubSeq(s, i, i)

InChars(c, alphabet) == \E i \in 1..Len(alphabet) : CharAt(alphabet, i) = c

IndexOfChar(c, alphabet) == CHOOSE i \in 1..Len(alphabet) : CharAt(alphabet, i) = c

IsDigit(c) == InChars(c, DigitChars)

IsLetter(c) == InChars(c, LowerLetters) \/ InChars(c, UpperLetters)

\* \s of a JavaScript regular expression, restricted to the characters used
IsSpace(c) == c = " " \/ c = "\t"

LowerOf ==
  [c \in {CharAt(UpperLetters, i) : i \in 1..Len(UpperLetters)} |->
     CharAt(LowerLetters, IndexOfChar(c, UpperLetters))]

UpperOf ==
  [c \in {CharAt(LowerLetters, i) : i \in 1..Len(LowerLetters)} |->
     CharAt(UpperLetters, IndexOfChar(c, LowerLetters))]

LowerChar(c) == IF c \in DOMAIN LowerOf THEN LowerOf[c] ELSE c

UpperChar(c) == IF c \in DOMAIN UpperOf THEN UpperOf[c] ELSE c

ToLowerCase(s) ==
  LET low[i \in 0..Len(s)] == IF i = 0 THEN "" ELSE low[i - 1] \o LowerChar(CharAt(s, i))
  IN low[Len(s)]

ToUpperCase(s) ==
  LET up[i \in 0..Len(s)] == IF i = 0 THEN "" ELSE up[i - 1] \o UpperChar(CharAt(s, i))
  IN up[Len(s)]

Includes(s, sub) ==
  IF sub = "" THEN TRUE
  ELSE \E i \in 1..(Len(s) - Len(sub) + 1) : SubSeq(s, i, i + Len(sub) - 1) = sub

StartsWith(s, p) ==
  IF p = "" THEN TRUE ELSE Len(p) <= Len(s) /\ SubSeq(s, 1, Len(p)) = p

RECURSIVE TrimStart(_)
TrimStart(s) ==
  IF s # "" /\ IsSpace(CharAt(s, 1)) THEN TrimStart(SubSeq(s, 2, Len(s))) ELSE s

RECURSIVE TrimEnd(_)
TrimEnd(s) ==
  IF s # "" /\ IsSpace(CharAt(s, Len(s))) THEN TrimEnd(SubSeq(s, 1, Len(s) - 1)) ELSE s

Trim(s) == TrimEnd(TrimStart(s))

\* s.split(/\s+/): the pieces between maximal runs of whitespace; cur is the
\* piece being read, and a run of whitespace closes it once.
RECURSIVE SplitFrom(_, _, _)
SplitFrom(s, cur, inRun) ==
  IF s = "" THEN <<cur>>
  ELSE IF IsSpace(CharAt(s, 1))
       THEN IF inRun THEN SplitFrom(SubSeq(s, 2, Len(s)), cur, TRUE)
            ELSE <<cur>> \o SplitFrom(SubSeq(s, 2, Len(s)), "", TRUE)
       ELSE SplitFrom(SubSeq(s, 2, Len(s)), cur \o CharAt(s, 1), FALSE)

SplitWhitespace(s) == SplitFrom(s, "", FALSE)

SeqToSet(q) == {q[i] : i \in 1..Len(q)}

SeqContains(q, x) == \E i \in 1..Len(q) : q[i] = x

\* [...new Set(q)]: first occurrences, in order
Dedup(q) ==
  LET first[i \in 0..Len(q)] ==
        IF i = 0 THEN <<>>
        ELSE IF SeqContains(first[i - 1], q[i]) THEN first[i - 1]
        ELSE Append(first[i - 1], q[i])
  IN first[Len(q)]

ConcatAll(qq) ==
  LET cat[i \in 0..Len(qq)] == IF i = 0 THEN <<>> ELSE cat[i - 1] \o qq[i]
  IN cat[Len(qq)]

Min(a, b) == IF a <= b THEN a ELSE b

Max(a, b) == IF a >= b THEN a ELSE b

Abs(a) == IF a < 0 THEN 0 - a ELSE a

(***************************************************************************)
(* SearchAnalyzer (src/app/lib/search-analyzer.ts)                         *)
(***************************************************************************)
\* confidences are held in units of 1/ConfUnit
ConfUnit == 100 * 100

EXACT_MATCH == "exact"
SEMANTIC == "semantic"
KEYWORD == "keyword"

\* a null or undefined string of the code; an optional record is a sequence of
\* length 0 (null) or 1
Null == "null"

\* [A-Z0-9\-_] with the i flag
IsSkuChar(c) == IsLetter(c) \/ IsDigit(c) \/ c = "-" \/ c = "_"

\* [A-Z0-9\-] with the i flag
IsMpnChar(c) == IsLetter(c) \/ IsDigit(c) \/ c = "-"

\* [A-Z0-9] with the i flag
IsAlnumChar(c) == IsLetter(c) \/ IsDigit(c)

AllDigits(s) == \A i \in 1..Len(s) : IsDigit(CharAt(s, i))

\* /^(PROD|ID|P)[\-_]?\d{4,}$/i
MatchesProductId(q) ==
  LET low == ToLowerCase(q)
  IN \E p \in {"prod", "id", "p"} :
       /\ StartsWith(low, p)
       /\ LET rest == SubSeq(low, Len(p) + 1, Len(low))
          IN \/ Len(rest) >= 4 /\ AllDigits(rest)
             \/ /\ rest # ""
                /\ CharAt(rest, 1) \in {"-", "_"}
                /\ Len(rest) >= 5
                /\ AllDigits(SubSeq(rest, 2, Len(rest)))

\* productIdPatterns, in the order of the object's keys
PatternNames == <<"sku", "mpn", "gtin", "upc", "productId", "alphanumeric">>

MatchesPattern(name, q) ==
  CASE name = "sku" ->
         Len(q) >= 3 /\ Len(q) <= 20 /\ \A i \in 1..Len(q) : IsSkuChar(CharAt(q, i))
    [] name = "mpn" ->
         Len(q) >= 6 /\ Len(q) <= 20 /\ \A i \in 1..Len(q) : IsMpnChar(CharAt(q, i))
    [] name = "gtin" -> Len(q) >= 8 /\ Len(q) <= 14 /\ AllDigits(q)
    [] name = "upc" -> Len(q) = 12 /\ AllDigits(q)
    [] name = "productId" -> MatchesProductId(q)
    [] name = "alphanumeric" ->
         Len(q) >= 4 /\ Len(q) <= 15 /\ \A i \in 1..Len(q) : IsAlnumChar(CharAt(q, i))

commonWords == <<"sale", "new", "all", "best", "top", "food">>

\* isProductIdentifier without the test against the common words
isProductIdentifierIgnoringCommonWords(q) ==
  IF Includes(q, " ") THEN FALSE
  ELSE \E i \in 1..Len(PatternNames) : MatchesPattern(PatternNames[i], q)

isProductIdentifier(q) ==
  IF Includes(q, " ") THEN FALSE
  ELSE IF SeqContains(commonWords, ToLowerCase(q)) THEN FALSE
  ELSE \E i \in 1..Len(PatternNames) : MatchesPattern(PatternNames[i], q)

getIdentifierType(q) ==
  IF \E i \in 1..Len(PatternNames) : MatchesPattern(PatternNames[i], q)
  THEN PatternNames[CHOOSE i \in 1..Len(PatternNames) :
                      /\ MatchesPattern(PatternNames[i], q)
                      /\ \A j \in 1..(i - 1) : ~MatchesPattern(PatternNames[j], q)]
  ELSE "alphanumeric"

ContextTypes == <<"categories", "attributes", "intents", "descriptors">>

contextKeywords ==
  [categories |->
     <<"chocolate", "cookies", "pasta", "sauce", "meat", "chicken", "beef",
       "vegetables", "fruit", "dairy", "cheese", "milk", "bread", "bakery",
       "frozen", "fresh", "canned", "snacks", "beverages", "coffee", "tea",
       "paper", "plates", "cups", "utensils", "napkins", "towels",
       "cleaning", "supplies", "equipment", "kitchen", "dessert", "appetizer",
       "salad", "soup", "entree", "side", "dish", "meal", "food", "drink">>,
   attributes |->
     <<"organic", "gluten-free", "vegan", "vegetarian", "plant-based", "kosher",
       "halal", "sugar-free", "low-fat", "natural", "fresh", "frozen", "dried",
       "canned", "disposable", "recyclable", "biodegradable", "eco-friendly",
       "dairy-free", "nut-free", "non-gmo", "whole", "raw">>,
   intents |->
     <<"healthy", "diet", "party", "catering", "bulk", "wholesale",
       "restaurant", "commercial", "industrial", "premium", "budget",
       "thanksgiving", "christmas", "holiday", "dinner", "lunch", "breakfast",
       "event", "celebration", "gathering", "meal", "occasion", "festive">>,
   descriptors |->
     <<"best", "top", "quality", "cheap", "expensive", "large", "small",
       "heavy-duty", "light", "strong", "durable", "single-use", "good",
       "great", "perfect", "suitable", "ideal", "options", "alternatives">>]

areSimilar(word1, word2) ==
  IF Abs(Len(word1) - Len(word2)) <= 1
  THEN LET longer == IF Len(word1) > Len(word2) THEN word1 ELSE word2
           shorter == IF Len(word1) > Len(word2) THEN word2 ELSE word1
       IN \/ StartsWith(longer, shorter)
          \/ StartsWith(shorter, SubSeq(longer, 1, Len(longer) - 1))
  ELSE FALSE

\* the filter predicate of extractContext
KeywordMatches(token, keyword) ==
  \/ token = keyword
  \/ Includes(keyword, token) /\ Len(token) > 2
  \/ Includes(token, keyword) /\ Len(keyword) > 3
  \/ areSimilar(token, keyword)

TokenMatches(token, contextType) ==
  SelectSeq(contextKeywords[contextType], LAMBDA k : KeywordMatches(token, k))

questionPatterns ==
  <<"what are", "where can", "how to", "which", "what kind",
    "looking for", "need", "want", "find", "suggest", "recommend",
    "options", "alternatives", "choices", "ideas">>

semanticPhrases ==
  <<"for a", "for my", "for the", "suitable for", "good for",
    "options for", "alternatives", "something", "anything">>

\* contextScore += 0.2 for each (token, context type) with a match
TokenMatchScore == 2000
\* contextScore += 0.15 for each question pattern the query includes
QuestionPatternScore == 1500
\* contextScore += 0.1 for each semantic phrase the query includes
SemanticPhraseScore == 1000

CountIncluded(patterns, text) ==
  Cardinality({i \in 1..Len(patterns) : Includes(text, patterns[i])})

\* foundContext[contextType] after the token loop: the matches of every token,
\* in token order
RECURSIVE FoundFor(_, _)
FoundFor(tokens, contextType) ==
  IF tokens = <<>> THEN <<>>
  ELSE TokenMatches(Head(tokens), contextType) \o FoundFor(Tail(tokens), contextType)

\* extractContext without the boost for several context types
extractContextUnboosted(query) ==
  LET queryLower == ToLowerCase(query)
      tokens == SplitWhitespace(queryLower)
      found == [t \in SeqToSet(ContextTypes) |-> FoundFor(tokens, t)]
      hits == {<<i, j>> \in (1..Len(tokens)) \X (1..Len(ContextTypes)) :
                 TokenMatches(tokens[i], ContextTypes[j]) # <<>>}
      matchedTokens == {tokens[h[1]] : h \in hits}
      score1 == Cardinality(hits) * TokenMatchScore
                  + CountIncluded(questionPatterns, queryLower) * QuestionPatternScore
                  + CountIncluded(semanticPhrases, queryLower) * SemanticPhraseScore
      contextTypeCount == Cardinality({t \in SeqToSet(ContextTypes) : found[t] # <<>>})
      score2 == score1
      score3 == IF \/ Includes(queryLower, "?")
                   \/ StartsWith(queryLower, "what")
                   \/ StartsWith(queryLower, "where")
                   \/ StartsWith(queryLower, "how")
                THEN (score2 * 12) \div 10 ELSE score2
  IN [categories |-> Dedup(found["categories"]),
      attributes |-> Dedup(found["attributes"]),
      intents |-> Dedup(found["intents"]),
      descriptors |-> Dedup(found["descriptors"]),
      confidence |-> Min(score3, ConfUnit),
      originalQuery |-> query,
      unmatchedTokens |-> SelectSeq(tokens, LAMBDA t : t \notin matchedTokens)]

extractContext(query) ==
  LET queryLower == ToLowerCase(query)
      tokens == SplitWhitespace(queryLower)
      found == [t \in SeqToSet(ContextTypes) |-> FoundFor(tokens, t)]
      hits == {<<i, j>> \in (1..Len(tokens)) \X (1..Len(ContextTypes)) :
                 TokenMatches(tokens[i], ContextTypes[j]) # <<>>}
      matchedTokens == {tokens[h[1]] : h \in hits}
      score1 == Cardinality(hits) * TokenMatchScore
                  + CountIncluded(questionPatterns, queryLower) * QuestionPatternScore
                  + CountIncluded(semanticPhrases, queryLower) * SemanticPhraseScore
      contextTypeCount == Cardinality({t \in SeqToSet(ContextTypes) : found[t] # <<>>})
      score2 == IF contextTypeCount >= 2 THEN (score1 * 13) \div 10 ELSE score1
      score3 == IF \/ Includes(queryLower, "?")
                   \/ StartsWith(queryLower, "what")
                   \/ StartsWith(queryLower, "where")
                   \/ StartsWith(queryLower, "how")
                THEN (score2 * 12) \div 10 ELSE score2
  IN [categories |-> Dedup(found["categories"]),
      attributes |-> Dedup(found["attributes"]),
      intents |-> Dedup(found["intents"]),
      descriptors |-> Dedup(found["descriptors"]),
      confidence |-> Min(score3, ConfUnit),
      originalQuery |-> query,
      unmatchedTokens |-> SelectSeq(tokens, LAMBDA t : t \notin matchedTokens)]

MaxChips == 8

\* generatePromptChips keeping one chip fewer
generatePromptChipsOneFewer(query, context) ==
  LET chips ==
        (IF context.categories = <<>>
         THEN <<"in Snacks", "in Beverages", "in Paper Products", "in Kitchen Equipment">>
         ELSE <<>>)
        \o (IF context.attributes = <<>>
            THEN <<"Organic", "Gluten-Free", "Bulk Size">> ELSE <<>>)
        \o (IF context.intents = <<>>
            THEN <<"for Restaurant", "for Home", "for Catering">> ELSE <<>>)
        \o <<"Premium Brands", "Budget Options", "On Sale">>
        \o (IF Len(query) < 10 /\ context.confidence < 3000
            THEN <<"Most Popular", "New Arrivals", "Best Sellers">> ELSE <<>>)
  IN SubSeq(chips, 1, Min(Len(chips), MaxChips - 1))

generatePromptChips(query, context) ==
  LET chips ==
        (IF context.categories = <<>>
         THEN <<"in Snacks", "in Beverages", "in Paper Products", "in Kitchen Equipment">>
         ELSE <<>>)
        \o (IF context.attributes = <<>>
            THEN <<"Organic", "Gluten-Free", "Bulk Size">> ELSE <<>>)
        \o (IF context.intents = <<>>
            THEN <<"for Restaurant", "for Home", "for Catering">> ELSE <<>>)
        \o <<"Premium Brands", "Budget Options", "On Sale">>
        \o (IF Len(query) < 10 /\ context.confidence < 3000
            THEN <<"Most Popular", "New Arrivals", "Best Sellers">> ELSE <<>>)
  IN SubSeq(chips, 1, Min(Len(chips), MaxChips))

\* analyze with a context confidence of exactly 0.4 taken as SEMANTIC
analyzeSemanticAtThreshold(query) ==
  LET cleanQuery == Trim(query)
  IN IF isProductIdentifier(cleanQuery)
     THEN [strategy |-> EXACT_MATCH,
           confidence |-> ConfUnit,
           identifierType |-> getIdentifierType(cleanQuery),
           context |-> <<>>,
           suggestedChips |-> <<>>,
           queryTerms |-> <<cleanQuery>>]
     ELSE LET context == extractContext(cleanQuery)
          IN IF context.confidence >= 4000
             THEN [strategy |-> SEMANTIC,
                   confidence |-> context.confidence,
                   identifierType |-> Null,
                   context |-> <<context>>,
                   suggestedChips |-> <<>>,
                   queryTerms |-> SplitWhitespace(ToLowerCase(cleanQuery))]
             ELSE [strategy |-> KEYWORD,
                   confidence |-> Max(3000, context.confidence),
                   identifierType |-> Null,
                   context |-> IF context.confidence > 0 THEN <<context>> ELSE <<>>,
                   suggestedChips |-> generatePromptChips(cleanQuery, context),
                   queryTerms |-> SplitWhitespace(ToLowerCase(cleanQuery))]

analyze(query) ==
  LET cleanQuery == Trim(query)
  IN IF isProductIdentifier(cleanQuery)
     THEN [strategy |-> EXACT_MATCH,
           confidence |-> ConfUnit,
           identifierType |-> getIdentifierType(cleanQuery),
           context |-> <<>>,
           suggestedChips |-> <<>>,
           queryTerms |-> <<cleanQuery>>]
     ELSE LET context == extractContext(cleanQuery)
          IN IF context.confidence > 4000
             THEN [strategy |-> SEMANTIC,
                   confidence |-> context.confidence,
                   identifierType |-> Null,
                   context |-> <<context>>,
                   suggestedChips |-> <<>>,
                   queryTerms |-> SplitWhitespace(ToLowerCase(cleanQuery))]
             ELSE [strategy |-> KEYWORD,
                   confidence |-> Max(3000, context.confidence),
                   identifierType |-> Null,
                   context |-> IF context.confidence > 0 THEN <<context>> ELSE <<>>,
                   suggestedChips |-> generatePromptChips(cleanQuery, context),
                   queryTerms |-> SplitWhitespace(ToLowerCase(cleanQuery))]

(***************************************************************************)
(* Search route (src/app/api/search/route.ts): concepts                    *)
(***************************************************************************)
\* dietaryTerms: <<key, synonyms>>, in the order of the object's keys
dietaryTerms ==
  << <<"vegan", <<"plant-based", "dairy-free", "meatless", "animal-free">> >>,
     <<"vegetarian", <<"meat-free", "veggie">> >>,
     <<"gluten-free", <<"gluten free", "celiac", "wheat-free">> >>,
     <<"keto", <<"low-carb", "ketogenic">> >>,
     <<"organic", <<"natural", "non-gmo">> >>,
     <<"kosher", <<"kosher certified">> >>,
     <<"halal", <<"halal certified">> >> >>

occasionTerms ==
  << <<"thanksgiving", <<"turkey day", "harvest", "november feast", "fall feast">> >>,
     <<"christmas", <<"xmas", "holiday", "festive", "december">> >>,
     <<"easter", <<"spring holiday", "paschal">> >>,
     <<"halloween", <<"october 31", "trick or treat">> >>,
     <<"bbq", <<"barbecue", "cookout", "grilling">> >>,
     <<"party", <<"celebration", "gathering", "event">> >> >>

traditionalFoods(occasion) ==
  CASE occasion = "thanksgiving" ->
         <<"turkey", "stuffing", "gravy", "cranberry sauce", "pumpkin pie",
           "mashed potatoes", "green bean casserole", "sweet potato", "corn">>
    [] occasion = "christmas" ->
         <<"ham", "roast", "cookies", "gingerbread", "eggnog", "candy cane",
           "fruitcake", "prime rib">>
    [] occasion = "bbq" ->
         <<"burgers", "hot dogs", "ribs", "chicken wings", "coleslaw",
           "potato salad", "corn on the cob">>
    [] occasion = "easter" -> <<"ham", "lamb", "eggs", "chocolate", "candy", "carrots">>
    [] OTHER -> <<>>

intentModifiers == <<"options", "alternatives", "substitutes", "ideas", "suggestions">>

\* the keys of a term table that the text names, directly or by a synonym
MatchedKeys(terms, text) ==
  LET hit(e) == \/ Includes(text, e[1])
                \/ \E i \in 1..Len(e[2]) : Includes(text, e[2][i])
      kept == SelectSeq(terms, hit)
  IN [i \in 1..Len(kept) |-> kept[i][1]]

extractSemanticConcepts(query) ==
  LET queryLower == ToLowerCase(query)
      occasions == MatchedKeys(occasionTerms, queryLower)
  IN [dietary |-> MatchedKeys(dietaryTerms, queryLower),
      occasions |-> occasions,
      productTypes |-> <<>>,
      modifiers |-> SelectSeq(intentModifiers, LAMBDA m : Includes(queryLower, m)),
      traditionalFoods |->
        ConcatAll([i \in 1..Len(occasions) |-> traditionalFoods(occasions[i])])]

alternativeProducts(key) ==
  CASE key = "vegan-thanksgiving" ->
         <<"tofurky", "plant-based roast", "field roast", "gardein turkey",
           "vegan stuffing", "mushroom gravy">>
    [] key = "vegan-christmas" ->
         <<"vegan ham", "nut roast", "wellington", "plant-based roast">>
    [] key = "vegan-bbq" ->
         <<"beyond burger", "impossible burger", "veggie burger",
           "plant-based sausage", "portobello">>
    [] key = "vegetarian-thanksgiving" -> <<"quorn roast", "vegetarian turkey", "nut loaf">>
    [] key = "gluten-free-thanksgiving" ->
         <<"gluten-free stuffing", "rice stuffing", "gluten-free pie">>
    [] OTHER -> <<>>

generateAlternativeSearchTerms(semanticConcepts) ==
  LET nd == Len(semanticConcepts.dietary)
      no == Len(semanticConcepts.occasions)
      \* the forEach over dietary x occasions, dietary outermost
      pairs == [k \in 1..(nd * no) |->
                  alternativeProducts(semanticConcepts.dietary[((k - 1) \div no) + 1] \o "-"
                                        \o semanticConcepts.occasions[((k - 1) % no) + 1])]
      generic == IF \/ SeqContains(semanticConcepts.dietary, "vegan")
                    \/ SeqContains(semanticConcepts.dietary, "vegetarian")
                 THEN <<"plant-based", "meat alternative", "dairy-free">>
                 ELSE <<>>
  IN Dedup(ConcatAll(pairs) \o generic)

\* Array.prototype.join
Join(q, sep) ==
  LET joined[i \in 0..Len(q)] ==
        IF i = 0 THEN ""
        ELSE IF i = 1 THEN q[1]
        ELSE joined[i - 1] \o sep \o q[i]
  IN joined[Len(q)]

(***************************************************************************)
(* Search route: documents, scores, fusion and the final sort              *)
(***************************************************************************)
\* scores are held in units of 1/ScoreUnit; 2^9 * 5^5 keeps every product and
\* quotient below exact
ScoreUnit == 512 * 3125

\* salesBoost is held in halves: 1 is 0.5, 4 is 2.0
SalesBoostUnit == 2

\* an absent (undefined) number
NoNumber == 0 - 1

DEFAULT_LIMIT == 24
MAX_LIMIT == 100

\* the queries of the requests
Queries ==
  {"SKU123456", "chocolate", "sale", "paper plates", "", "   ",
   "organic pasta", "keto party ideas", "vegan thanksgiving options"}

\* the documents of the collection; is_in_stock is "true", "false" or
\* "undefined" (the field is optional)
docA ==
  [sku |-> "A", name |-> "Tofurky Vegan Turkey Roast",
   description |-> "plant-based turkey for thanksgiving", brand |-> "Tofurky",
   sales_count |-> 9, is_in_stock |-> "true"]
docB ==
  [sku |-> "B", name |-> "Paper Plates", description |-> "", brand |-> "Dixie",
   sales_count |-> 9, is_in_stock |-> "false"]
docC ==
  [sku |-> "C", name |-> "Organic Pasta", description |-> "", brand |-> "",
   sales_count |-> 99, is_in_stock |-> "undefined"]

Documents == {docA, docB, docC}

\* what the backend can return for a document: its text-match score on a
\* text search, its vector distance on a vector search (a field that is not
\* set is 0, which the code's || treats like undefined)
BackendHits ==
  {[document |-> docA, text_match |-> 2 * ScoreUnit, vector_distance |-> ScoreUnit \div 2],
   [document |-> docB, text_match |-> ScoreUnit, vector_distance |-> 0],
   [document |-> docC, text_match |-> 0, vector_distance |-> ScoreUnit]}

\* the documents a text search matches
TextHits ==
  {[h EXCEPT !.vector_distance = 0] : h \in {b \in BackendHits : b.text_match # 0}}

\* the documents a vector search finds near the query embedding
VectorHits ==
  {[h EXCEPT !.text_match = 0] : h \in {b \in BackendHits : b.vector_distance # 0}}

\* { ...document, score }
Scored(document, score) ==
  [sku |-> document.sku, name |-> document.name, description |-> document.description,
   brand |-> document.brand, sales_count |-> document.sales_count,
   is_in_stock |-> document.is_in_stock, score |-> score]

\* Math.log10 at the powers of ten the documents' sales counts give
Log10(n) == CASE n = 1 -> 0 [] n = 10 -> 1 [] n = 100 -> 2

\* base * (1 + salesScore * salesBoost)
SalesAdjusted(base, sales_count, salesBoost) ==
  (base * (SalesBoostUnit + Log10(sales_count + 1) * salesBoost)) \div SalesBoostUnit

\* options.salesBoost || 0.5
EffectiveSalesBoost(salesBoost) ==
  IF salesBoost = NoNumber \/ salesBoost = 0 THEN 1 ELSE salesBoost

processSearchResults(hits, salesBoost) ==
  [i \in 1..Len(hits) |->
     LET hit == hits[i]
         baseScore == IF hit.text_match # 0 THEN hit.text_match
                      ELSE IF hit.vector_distance # 0 THEN hit.vector_distance ELSE 0
     IN Scored(hit.document,
               SalesAdjusted(baseScore, hit.document.sales_count, salesBoost))]

\* x replaced by '-' -> ' ' once (String.prototype.replace with a string pattern)
ReplaceFirstDash(x) ==
  IF Includes(x, "-")
  THEN LET i == CHOOSE k \in 1..Len(x) :
                  CharAt(x, k) = "-" /\ \A j \in 1..(k - 1) : CharAt(x, j) # "-"
       IN SubSeq(x, 1, i - 1) \o " " \o SubSeq(x, i + 1, Len(x))
  ELSE x

alternativeBrands ==
  <<"tofurky", "gardein", "field roast", "beyond", "impossible", "daiya", "quorn">>

\* the factors of conceptBoost in postProcessConceptMatches, each a fraction
\* <<numerator, denominator>>, in the order the code multiplies them
conceptBoostFactors(document, semanticConcepts) ==
  LET brandLower == ToLowerCase(document.brand)
      combined == ToLowerCase(document.name) \o " " \o ToLowerCase(document.description)
                    \o " " \o brandLower
      hasDietaryMatch ==
        \E i \in 1..Len(semanticConcepts.dietary) :
          \/ Includes(combined, semanticConcepts.dietary[i])
          \/ Includes(combined, ReplaceFirstDash(semanticConcepts.dietary[i]))
      isAlternative ==
        \E i \in 1..Len(semanticConcepts.traditionalFoods) :
          LET food == semanticConcepts.traditionalFoods[i]
          IN \E pre \in {semanticConcepts.dietary[1], "plant-based", "meatless", "dairy-free"} :
               Includes(combined, pre \o " " \o food)
      knownBrand ==
        \E i \in 1..Len(alternativeBrands) : Includes(brandLower, alternativeBrands[i])
      hasOccasionMatch ==
        \E i \in 1..Len(semanticConcepts.occasions) : Includes(combined, semanticConcepts.occasions[i])
      d == semanticConcepts.dietary # <<>> /\ hasDietaryMatch
  IN << IF d THEN <<13, 10>> ELSE <<1, 1>>,
        IF d /\ isAlternative THEN <<3, 2>> ELSE <<1, 1>>,
        IF d /\ knownBrand THEN <<13, 10>> ELSE <<1, 1>>,
        IF semanticConcepts.occasions # <<>> /\ hasOccasionMatch THEN <<6, 5>> ELSE <<1, 1>> >>

\* conceptBoostFactors, evaluated once for every document and every concepts
\* record a query of the model gives
ConceptBoostTable ==
  [c \in {extractSemanticConcepts(q) : q \in Queries} |->
     [d \in Documents |-> conceptBoostFactors(d, c)]]

conceptBoost(document, semanticConcepts) == ConceptBoostTable[semanticConcepts][document]

RECURSIVE Boosted(_, _)
Boosted(score, factors) ==
  IF factors = <<>> THEN score
  ELSE Boosted((score * Head(factors)[1]) \div Head(factors)[2], Tail(factors))

\* finalScore = score * conceptBoost * (1 + salesScore * salesBoost)
postProcessConceptMatches(hits, semanticConcepts, salesBoost) ==
  [i \in 1..Len(hits) |->
     LET hit == hits[i]
     IN Scored(hit.document,
               SalesAdjusted(Boosted(hit.text_match, conceptBoost(hit.document, semanticConcepts)),
                             hit.document.sales_count, salesBoost))]

\* score: (hit.text_match || 0) * 1.5
conceptCombinationResults(hits) ==
  [i \in 1..Len(hits) |-> Scored(hits[i].document, (hits[i].text_match * 3) \div 2)]

\* score: 100
exactMatchResults(hits) ==
  [i \in 1..Len(hits) |-> Scored(hits[i].document, 100 * ScoreUnit)]

\* score: hit.text_match || 0
fallbackResults(hits) ==
  [i \in 1..Len(hits) |-> Scored(hits[i].document, hits[i].text_match)]

\* the fusion weights as fractions <<numerator, denominator>>
MultiConceptWeights == [concept |-> <<2, 5>>, keyword |-> <<7, 20>>, vector |-> <<1, 4>>]
SimpleWeights == [vector |-> <<1, 2>>, keyword |-> <<7, 20>>, concept |-> <<3, 20>>]

Weighted(score, weight) == (score * weight[1]) \div weight[2]

\* productMap is a Map in insertion order: a sequence of entries, one per sku
MapIndex(productMap, sku) ==
  IF \E i \in 1..Len(productMap) : productMap[i].product.sku = sku
  THEN CHOOSE i \in 1..Len(productMap) : productMap[i].product.sku = sku
  ELSE 0

\* addProduct without the lookup of the sku: every product is a new entry
addProductAppending(productMap, product, source, weight) ==
  Append(productMap,
         [product |-> [product EXCEPT !.score = Weighted(product.score, weight)],
          sources |-> {source}])

\* addProduct with the score of a sku already in the map replaced, not added to
addProductOverwriting(productMap, product, source, weight) ==
  LET i == MapIndex(productMap, product.sku)
  IN IF i # 0
     THEN [productMap EXCEPT
             ![i].product.score = Weighted(product.score, weight),
             ![i].sources = @ \cup {source}]
     ELSE Append(productMap,
                 [product |-> [product EXCEPT !.score = Weighted(product.score, weight)],
                  sources |-> {source}])

addProduct(productMap, product, source, weight) ==
  LET i == MapIndex(productMap, product.sku)
  IN IF i # 0
     THEN [productMap EXCEPT
             ![i].product.score = @ + Weighted(product.score, weight),
             ![i].sources = @ \cup {source}]
     ELSE Append(productMap,
                 [product |-> [product EXCEPT !.score = Weighted(product.score, weight)],
                  sources |-> {source}])

RECURSIVE addProducts(_, _, _, _)
addProducts(productMap, products, source, weight) ==
  IF products = <<>> THEN productMap
  ELSE addProducts(addProduct(productMap, Head(products), source, weight),
                   Tail(products), source, weight)

\* MultiSourceBoost without the test of sources.size
MultiSourceBoostAlways(score, n) == (score * (10 + n)) \div 10

\* product.score * (1 + 0.1 * sources.size) when sources.size > 1
MultiSourceBoost(score, n) == IF n > 1 THEN (score * (10 + n)) \div 10 ELSE score

\* products.sort((a, b) => b.score - a.score): the stable sort, by insertion
RECURSIVE InsertByScore(_, _)
InsertByScore(sorted, product) ==
  IF sorted = <<>> THEN <<product>>
  ELSE IF sorted[Len(sorted)].score >= product.score THEN Append(sorted, product)
  ELSE Append(InsertByScore(SubSeq(sorted, 1, Len(sorted) - 1), product),
              sorted[Len(sorted)])

RECURSIVE SortByScoreDesc(_)
SortByScoreDesc(products) ==
  IF products = <<>> THEN <<>>
  ELSE InsertByScore(SortByScoreDesc(SubSeq(products, 1, Len(products) - 1)),
                     products[Len(products)])

hasMultipleConcepts(semanticConcepts) == semanticConcepts.dietary # <<>> /\ semanticConcepts.occasions # <<>>

\* the productMap after the three addProducts calls and the multi-source boost
fusedMap(vectorResults, keywordResults, conceptResults, semanticConcepts) ==
  LET accumulated ==
        IF hasMultipleConcepts(semanticConcepts)
        THEN addProducts(
               addProducts(
                 addProducts(<<>>, conceptResults, "concept", MultiConceptWeights.concept),
                 keywordResults, "keyword", MultiConceptWeights.keyword),
               vectorResults, "vector", MultiConceptWeights.vector)
        ELSE addProducts(
               addProducts(
                 addProducts(<<>>, vectorResults, "vector", SimpleWeights.vector),
                 keywordResults, "keyword", SimpleWeights.keyword),
               conceptResults, "concept", SimpleWeights.concept)
  IN [i \in 1..Len(accumulated) |->
        [accumulated[i] EXCEPT
           !.product.score = MultiSourceBoost(@, Cardinality(accumulated[i].sources))]]

mergeSemanticResults(vectorResults, keywordResults, conceptResults, semanticConcepts) ==
  LET productMap == fusedMap(vectorResults, keywordResults, conceptResults, semanticConcepts)
  IN SortByScoreDesc([i \in 1..Len(productMap) |-> productMap[i].product])

\* a comparator that looks at the score alone
compareScoreOnly(a, b) == b.score - a.score

\* the comparator of sortByStockStatus
compareStock(a, b) ==
  IF a.is_in_stock # b.is_in_stock
  THEN IF a.is_in_stock = "false" THEN 1 ELSE 0 - 1
  ELSE b.score - a.score

IndexPermutations(n) ==
  {p \in [1..n -> 1..n] : \A i, j \in 1..n : p[i] = p[j] => i = j}

\* compareStock is a consistent comparator on a list when the two directions
\* of every comparison agree and "comes before" and "equal" are transitive
consistentComparator(products) ==
  LET n == Len(products)
      c(i, j) == compareStock(products[i], products[j])
  IN /\ \A i, j \in 1..n : (c(i, j) < 0 <=> c(j, i) > 0) /\ (c(i, j) = 0 <=> c(j, i) = 0)
     /\ \A i, j, k \in 1..n :
          /\ (c(i, j) < 0 /\ c(j, k) < 0) => c(i, k) < 0
          /\ (c(i, j) = 0 /\ c(j, k) = 0) => c(i, k) = 0

\* the stable sort by compareStock, by insertion
RECURSIVE InsertByStock(_, _)
InsertByStock(sorted, product) ==
  IF sorted = <<>> THEN <<product>>
  ELSE IF compareStock(sorted[Len(sorted)], product) <= 0 THEN Append(sorted, product)
  ELSE Append(InsertByStock(SubSeq(sorted, 1, Len(sorted) - 1), product),
              sorted[Len(sorted)])

RECURSIVE StableSortByStock(_)
StableSortByStock(products) ==
  IF products = <<>> THEN <<>>
  ELSE InsertByStock(StableSortByStock(SubSeq(products, 1, Len(products) - 1)),
                     products[Len(products)])

\* the pairs <<i, j>> of positions such that comparisons can lead a sort to
\* leave products[i] before products[j]: one comparison of the two, asked in
\* either direction, or a chain of such comparisons through other elements
comparisonChains(products) ==
  LET n == Len(products)
      direct == {pair \in (1..n) \X (1..n) :
                   \/ compareStock(products[pair[1]], products[pair[2]]) <= 0
                   \/ compareStock(products[pair[2]], products[pair[1]]) >= 0}
      closure[k \in 0..n] ==
        IF k = 0 THEN direct
        ELSE closure[k - 1] \cup
               {pair \in (1..n) \X (1..n) :
                  \E m \in 1..n : <<pair[1], m>> \in closure[k - 1]
                                  /\ <<m, pair[2]>> \in closure[k - 1]}
  IN closure[n]

\* Array.prototype.sort with compareStock.  On a list where the comparator is
\* consistent the result is the stable sort.  Where it contradicts itself (an
\* undefined is_in_stock against true: each is told to come first) the order
\* is implementation-defined: a comparison sort can leave an element before
\* another when a chain of comparisons says so, and every such order is a
\* possible result.
sortByStockStatus(products) ==
  IF consistentComparator(products) THEN {StableSortByStock(products)}
  ELSE LET n == Len(products)
           chains == comparisonChains(products)
       IN {[i \in 1..n |-> products[p[i]]] :
             p \in {q \in IndexPermutations(n) :
                      \A i, j \in 1..n : i < j => <<q[i], q[j]>> \in chains}}

(***************************************************************************)
(* Search route: the request, the backend and the handlers                 *)
(***************************************************************************)
\* longest hit list the backend returns in the model
MaxHits == 2

\* options.queryEmbedding.slice(0, 768) and the length test before it
TruncatedDimensions == 768

\* an embedding of n dimensions; the i-th component is i, so that a prefix
\* is told from any other part
Embedding(n) == [i \in 1..n |-> i]

\* the request bodies (their queries are Queries): queryEmbedding is <<>> when absent and <<e>> when
\* present; salesBoost is NoNumber when absent; limit 0 stands for an absent
\* limit too (body.limit || DEFAULT_LIMIT)
Embeddings ==
  {<<>>, <<Embedding(0)>>, <<Embedding(TruncatedDimensions)>>,
   <<Embedding(TruncatedDimensions + 1)>>}

SalesBoosts == {NoNumber, 0, 4}

Limits == {0, 1}

Requests ==
  [query : Queries, queryEmbedding : Embeddings, salesBoost : SalesBoosts, limit : Limits]

\* messages of the errors the backend client throws
ErrorMessages == {"Request payload too large", "connect ECONNREFUSED"}

NoReply == [kind |-> "pending", hits |-> <<>>, message |-> ""]

HitLists(hits, max) == UNION {[1..n -> hits] : n \in 0..max}

\* what client.multiSearch.perform can do with a call: throw, answer without
\* a hits field, or answer with at most per_page hits
Replies(call) ==
  {[kind |-> "throw", hits |-> <<>>, message |-> m] : m \in ErrorMessages}
  \cup {[kind |-> "nohits", hits |-> <<>>, message |-> ""]}
  \cup {[kind |-> "hits", hits |-> h, message |-> ""] :
          h \in HitLists(IF call.site = "vector" THEN VectorHits ELSE TextHits,
                         Min(call.per_page, MaxHits))}


\* { ...body, limit: Math.min(body.limit || DEFAULT_LIMIT, MAX_LIMIT) }
options ==
  [request EXCEPT !.limit = Min(IF request.limit = 0 THEN DEFAULT_LIMIT ELSE request.limit,
                                MAX_LIMIT)]

\* hasEmbedding without the test of the embedding's length
hasEmbeddingField == options.queryEmbedding # <<>>

hasEmbedding == options.queryEmbedding # <<>> /\ options.queryEmbedding[1] # <<>>

NoBranch == [status |-> "absent", value |-> <<>>]
PendingBranch == [status |-> "pending", value |-> <<>>]
Fulfilled(value) == [status |-> "fulfilled", value |-> value]

identifierFields == <<"sku", "mpn", "gtin", "upc", "product_id">>

ExactCall ==
  LET searchQuery == ToUpperCase(options.query)
  IN [site |-> "exact", q |-> "*",
      filter_by |-> Join([i \in 1..Len(identifierFields) |->
                            identifierFields[i] \o ":=" \o searchQuery], " || "),
      per_page |-> options.limit, embedding |-> <<>>, reply |-> NoReply]

KeywordCall ==
  [site |-> "keyword", q |-> IF options.query = "" THEN "*" ELSE options.query,
   filter_by |-> "", per_page |-> options.limit, embedding |-> <<>>, reply |-> NoReply]

FallbackCall ==
  [site |-> "fallback", q |-> options.query, filter_by |-> "",
   per_page |-> options.limit, embedding |-> <<>>, reply |-> NoReply]

VectorCall(embedding) ==
  [site |-> "vector", q |-> "*", filter_by |-> "", per_page |-> options.limit,
   embedding |-> embedding, reply |-> NoReply]

dietaryFilter(diet) ==
  CASE diet = "vegan" -> "(food_properties:vegan || name:vegan || description:plant-based)"
    [] diet = "vegetarian" ->
         "(food_properties:vegetarian || name:vegetarian || name:veggie)"
    [] diet = "gluten-free" -> "(food_properties:gluten-free || name:gluten-free)"
    [] OTHER -> "food_properties:" \o diet

ConceptKeywordCall(c) ==
  [site |-> "conceptKeyword",
   q |-> IF c.dietary # <<>> /\ c.traditionalFoods # <<>>
         THEN options.query \o " "
                \o Join(SubSeq(c.traditionalFoods, 1, Min(3, Len(c.traditionalFoods))), " ")
         ELSE options.query,
   filter_by |-> Join([i \in 1..Len(c.dietary) |-> dietaryFilter(c.dietary[i])], " && "),
   per_page |-> options.limit, embedding |-> <<>>, reply |-> NoReply]

ConceptCombinationCall(c) ==
  [site |-> "conceptCombination", q |-> Join(generateAlternativeSearchTerms(c), " "),
   filter_by |-> "", per_page |-> Min(options.limit, 10), embedding |-> <<>>,
   reply |-> NoReply]

IsPending(site) ==
  \E i \in 1..Len(calls) : calls[i].site = site /\ calls[i].reply.kind = "pending"

PendingIndex(site) ==
  CHOOSE i \in 1..Len(calls) : calls[i].site = site /\ calls[i].reply.kind = "pending"

Answered(site, reply) == [calls EXCEPT ![PendingIndex(site)].reply = reply]

Init ==
  /\ pc = "received"
  /\ request \in Requests
  /\ analysis = <<>>
  /\ concepts = <<>>
  /\ calls = <<>>
  /\ branches = [vector |-> NoBranch, keyword |-> NoBranch, concept |-> NoBranch]
  /\ response = <<>>

\* Respond reporting the strategy of the executor that produced the results
RespondWithExecutorStrategy(results) ==
  /\ pc' = "done"
  /\ \E sorted \in sortByStockStatus(results) :
       response' = <<[success |-> TRUE, results |-> sorted, count |-> Len(sorted),
                      strategy |-> IF \E i \in 1..Len(calls) : calls[i].site = "vector"
                                   THEN SEMANTIC
                                   ELSE IF \E i \in 1..Len(calls) : calls[i].site = "exact"
                                        THEN IF \E i \in 1..Len(calls) :
                                                    calls[i].site = "fallback"
                                             THEN KEYWORD ELSE EXACT_MATCH
                                        ELSE KEYWORD,
                      suggestedChips |-> analysis[1].suggestedChips, error |-> ""]>>

\* the end of POST's try block: sortByStockStatus and the success response
Respond(results) ==
  /\ pc' = "done"
  /\ \E sorted \in sortByStockStatus(results) :
       response' = <<[success |-> TRUE, results |-> sorted, count |-> Len(sorted),
                      strategy |-> analysis[1].strategy,
                      suggestedChips |-> analysis[1].suggestedChips, error |-> ""]>>

\* POST's catch block
RespondError(message) ==
  /\ pc' = "done"
  /\ response' = <<[success |-> FALSE, results |-> <<>>, count |-> 0,
                    strategy |-> Null, suggestedChips |-> <<>>, error |-> message]>>

effectiveSalesBoost == EffectiveSalesBoost(options.salesBoost)

\* performExactMatchSearch up to its await
DispatchExact ==
  /\ analyze(options.query).strategy = EXACT_MATCH
  /\ calls' = Append(calls, ExactCall)
  /\ pc' = "exact"
  /\ UNCHANGED <<concepts, branches>>

\* performKeywordSearch up to its await; performSemanticSearch delegates to
\* it when the request carries no embedding
DispatchKeyword ==
  /\ \/ analyze(options.query).strategy = KEYWORD
     \/ analyze(options.query).strategy = SEMANTIC /\ ~hasEmbedding
  /\ calls' = Append(calls, KeywordCall)
  /\ pc' = "keyword"
  /\ UNCHANGED <<concepts, branches>>

\* DispatchSemantic with the combination search issued for a dietary concept alone
DispatchSemanticOnDietaryAlone ==
  /\ analyze(options.query).strategy = SEMANTIC
  /\ hasEmbedding
  /\ LET c == extractSemanticConcepts(options.query)
         combination == c.dietary # <<>>
         \* performConceptCombinationSearch returns [] without a call when
         \* there are no alternative terms
         combinationCalls == combination /\ generateAlternativeSearchTerms(c) # <<>>
     IN /\ concepts' = <<c>>
        /\ calls' = calls \o <<VectorCall(options.queryEmbedding[1]), ConceptKeywordCall(c)>>
                      \o (IF combinationCalls THEN <<ConceptCombinationCall(c)>> ELSE <<>>)
        /\ branches' = [vector |-> PendingBranch,
                        keyword |-> PendingBranch,
                        concept |-> IF combinationCalls THEN PendingBranch
                                    ELSE IF combination THEN Fulfilled(<<>>)
                                    ELSE NoBranch]
  /\ pc' = "semantic"

\* performSemanticSearch up to its await of Promise.allSettled: every
\* sub-search runs to its own await, in the order the promises are created
DispatchSemantic ==
  /\ analyze(options.query).strategy = SEMANTIC
  /\ hasEmbedding
  /\ LET c == extractSemanticConcepts(options.query)
         combination == hasMultipleConcepts(c)
         \* performConceptCombinationSearch returns [] without a call when
         \* there are no alternative terms
         combinationCalls == combination /\ generateAlternativeSearchTerms(c) # <<>>
     IN /\ concepts' = <<c>>
        /\ calls' = calls \o <<VectorCall(options.queryEmbedding[1]), ConceptKeywordCall(c)>>
                      \o (IF combinationCalls THEN <<ConceptCombinationCall(c)>> ELSE <<>>)
        /\ branches' = [vector |-> PendingBranch,
                        keyword |-> PendingBranch,
                        concept |-> IF combinationCalls THEN PendingBranch
                                    ELSE IF combination THEN Fulfilled(<<>>)
                                    ELSE NoBranch]
  /\ pc' = "semantic"

\* POST from the parsed body to the first await of the chosen executor
Post ==
  /\ pc = "received"
  /\ analysis' = <<analyze(options.query)>>
  /\ \/ DispatchExact
     \/ DispatchKeyword
     \/ DispatchSemantic
  /\ UNCHANGED <<request, response>>

\* ExactReply with the error of the exact search thrown on to POST
ExactReplyRethrowing ==
  /\ pc = "exact"
  /\ \E reply \in Replies(calls[PendingIndex("exact")]) :
       IF reply.kind = "hits" /\ Len(reply.hits) > 0
       THEN /\ calls' = Answered("exact", reply)
            /\ Respond(exactMatchResults(reply.hits))
       ELSE IF reply.kind = "throw"
       THEN /\ calls' = Answered("exact", reply)
            /\ RespondError(reply.message)
       ELSE /\ calls' = Append(Answered("exact", reply), FallbackCall)
            /\ pc' = "fallback"
            /\ UNCHANGED response
  /\ UNCHANGED <<request, analysis, concepts, branches>>

\* performExactMatchSearch after its await: the hits with score 100, or
\* performFallbackSearch (on no hit and on an error) up to its await
ExactReply ==
  /\ pc = "exact"
  /\ \E reply \in Replies(calls[PendingIndex("exact")]) :
       IF reply.kind = "hits" /\ Len(reply.hits) > 0
       THEN /\ calls' = Answered("exact", reply)
            /\ Respond(exactMatchResults(reply.hits))
       ELSE /\ calls' = Append(Answered("exact", reply), FallbackCall)
            /\ pc' = "fallback"
            /\ UNCHANGED response
  /\ UNCHANGED <<request, analysis, concepts, branches>>

\* FallbackReply with the error of the fallback search thrown on to POST
FallbackReplyRethrowing ==
  /\ pc = "fallback"
  /\ \E reply \in Replies(calls[PendingIndex("fallback")]) :
       /\ calls' = Answered("fallback", reply)
       /\ IF reply.kind = "throw" THEN RespondError(reply.message)
          ELSE Respond(IF reply.kind = "hits" THEN fallbackResults(reply.hits) ELSE <<>>)
  /\ UNCHANGED <<request, analysis, concepts, branches>>

\* performFallbackSearch after its await; an error gives []
FallbackReply ==
  /\ pc = "fallback"
  /\ \E reply \in Replies(calls[PendingIndex("fallback")]) :
       /\ calls' = Answered("fallback", reply)
       /\ Respond(IF reply.kind = "hits" THEN fallbackResults(reply.hits) ELSE <<>>)
  /\ UNCHANGED <<request, analysis, concepts, branches>>

\* KeywordReply with the error caught and answered by an empty list
KeywordReplySwallowing ==
  /\ pc = "keyword"
  /\ \E reply \in Replies(calls[PendingIndex("keyword")]) :
       /\ calls' = Answered("keyword", reply)
       /\ Respond(IF reply.kind = "hits"
                  THEN processSearchResults(reply.hits, effectiveSalesBoost)
                  ELSE <<>>)
  /\ UNCHANGED <<request, analysis, concepts, branches>>

\* performKeywordSearch after its await; an error is thrown on to POST
KeywordReply ==
  /\ pc = "keyword"
  /\ \E reply \in Replies(calls[PendingIndex("keyword")]) :
       /\ calls' = Answered("keyword", reply)
       /\ IF reply.kind = "throw" THEN RespondError(reply.message)
          ELSE Respond(IF reply.kind = "hits"
                       THEN processSearchResults(reply.hits, effectiveSalesBoost)
                       ELSE <<>>)
  /\ UNCHANGED <<request, analysis, concepts, branches>>

\* Settle with the second promise's value read for the third's
SettleMisreadingConcept(name, value) ==
  LET settled == [branches EXCEPT ![name] = Fulfilled(value)]
  IN /\ branches' = settled
     /\ IF \A k \in DOMAIN settled : settled[k].status # "pending"
        THEN Respond(mergeSemanticResults(settled.vector.value, settled.keyword.value,
                                          settled.keyword.value, concepts[1]))
        ELSE UNCHANGED <<pc, response>>

\* a sub-search's promise is fulfilled; when it is the last one,
\* Promise.allSettled resolves and performSemanticSearch merges and returns
Settle(name, value) ==
  LET settled == [branches EXCEPT ![name] = Fulfilled(value)]
  IN /\ branches' = settled
     /\ IF \A k \in DOMAIN settled : settled[k].status # "pending"
        THEN Respond(mergeSemanticResults(settled.vector.value, settled.keyword.value,
                                          settled.concept.value, concepts[1]))
        ELSE UNCHANGED <<pc, response>>

\* VectorReply with the whole embedding sent again on the retry
VectorReplyRetryingWhole ==
  /\ pc = "semantic"
  /\ IsPending("vector")
  /\ LET call == calls[PendingIndex("vector")]
     IN \E reply \in Replies(call) :
          IF /\ reply.kind = "throw"
             /\ Includes(reply.message, "payload")
             /\ Len(call.embedding) > TruncatedDimensions
             /\ Cardinality({i \in 1..Len(calls) : calls[i].site = "vector"}) = 1
          THEN /\ calls' = Append(Answered("vector", reply), VectorCall(call.embedding))
               /\ UNCHANGED <<pc, branches, response>>
          ELSE /\ calls' = Answered("vector", reply)
               /\ Settle("vector",
                         IF reply.kind = "hits"
                         THEN processSearchResults(reply.hits, effectiveSalesBoost)
                         ELSE <<>>)
  /\ UNCHANGED <<request, analysis, concepts>>

\* VectorReply without the test of the embedding's length before the retry
VectorReplyRetryingAnyLength ==
  /\ pc = "semantic"
  /\ IsPending("vector")
  /\ LET call == calls[PendingIndex("vector")]
     IN \E reply \in Replies(call) :
          IF /\ reply.kind = "throw"
             /\ Includes(reply.message, "payload")
          THEN /\ calls' = Append(Answered("vector", reply),
                                  VectorCall(SubSeq(call.embedding, 1,
                                                    Min(Len(call.embedding),
                                                        TruncatedDimensions))))
               /\ UNCHANGED <<pc, branches, response>>
          ELSE /\ calls' = Answered("vector", reply)
               /\ Settle("vector",
                         IF reply.kind = "hits"
                         THEN processSearchResults(reply.hits, effectiveSalesBoost)
                         ELSE <<>>)
  /\ UNCHANGED <<request, analysis, concepts>>

\* performVectorSearch after its await: on an error whose message includes
\* "payload", with more than 768 dimensions, it calls itself with the
\* embedding cut to 768; any other error gives []
VectorReply ==
  /\ pc = "semantic"
  /\ IsPending("vector")
  /\ LET call == calls[PendingIndex("vector")]
     IN \E reply \in Replies(call) :
          IF /\ reply.kind = "throw"
             /\ Includes(reply.message, "payload")
             /\ Len(call.embedding) > TruncatedDimensions
          THEN /\ calls' = Append(Answered("vector", reply),
                                  VectorCall(SubSeq(call.embedding, 1, TruncatedDimensions)))
               /\ UNCHANGED <<pc, branches, response>>
          ELSE /\ calls' = Answered("vector", reply)
               /\ Settle("vector",
                         IF reply.kind = "hits"
                         THEN processSearchResults(reply.hits, effectiveSalesBoost)
                         ELSE <<>>)
  /\ UNCHANGED <<request, analysis, concepts>>

\* performConceptAwareKeywordSearch after its await; an error gives []
ConceptKeywordReply ==
  /\ pc = "semantic"
  /\ IsPending("conceptKeyword")
  /\ \E reply \in Replies(calls[PendingIndex("conceptKeyword")]) :
       /\ calls' = Answered("conceptKeyword", reply)
       /\ Settle("keyword",
                 IF reply.kind = "hits"
                 THEN postProcessConceptMatches(reply.hits, concepts[1], effectiveSalesBoost)
                 ELSE <<>>)
  /\ UNCHANGED <<request, analysis, concepts>>

\* performConceptCombinationSearch after its await; an error gives []
ConceptCombinationReply ==
  /\ pc = "semantic"
  /\ IsPending("conceptCombination")
  /\ \E reply \in Replies(calls[PendingIndex("conceptCombination")]) :
       /\ calls' = Answered("conceptCombination", reply)
       /\ Settle("concept",
                 IF reply.kind = "hits" THEN conceptCombinationResults(reply.hits) ELSE <<>>)
  /\ UNCHANGED <<request, analysis, concepts>>

Next ==
  \/ Post
  \/ ExactReply
  \/ FallbackReply
  \/ KeywordReply
  \/ VectorReply
  \/ ConceptKeywordReply
  \/ ConceptCombinationReply

Spec == Init /\ [][Next]_vars

(***************************************************************************)
(* The ranking step of POST on its own: the list a strategy returned, of   *)
(* products of any stock status and score, goes through sortByStockStatus  *)
(* into the success response.  The body's stockPriority is spread into     *)
(* options and read nowhere.                                               *)
(***************************************************************************)
MaxProducts == 3

\* the scores of the products, in whole units
ProductScores == {1, 2}

StockStatuses == {"true", "false", "undefined"}

ProductSkus == <<"A", "B", "C", "D", "E">>

\* the lists of up to MaxProducts products with distinct skus
ProductLists ==
  UNION {{[i \in 1..n |-> Scored([docA EXCEPT !.sku = ProductSkus[i],
                                              !.is_in_stock = stock[i]],
                                 score[i] * ScoreUnit)] :
            stock \in [1..n -> StockStatuses], score \in [1..n -> ProductScores]} :
         n \in 0..MaxProducts}

\* POST after its strategy returned `results`
RankInit ==
  /\ pc = "searched"
  /\ request \in [query : {"sale"}, queryEmbedding : {<<>>}, salesBoost : {NoNumber},
                  limit : {0}, stockPriority : BOOLEAN]
  /\ analysis = <<analyze(request.query)>>
  /\ concepts = <<>>
  /\ calls = <<>>
  /\ \E results \in ProductLists :
       branches = [vector |-> NoBranch, keyword |-> Fulfilled(results), concept |-> NoBranch]
  /\ response = <<>>

\* results = sortByStockStatus(results) and the success response
Rank ==
  /\ pc = "searched"
  /\ Respond(branches.keyword.value)
  /\ UNCHANGED <<request, analysis, concepts, calls, branches>>

RankNext == Rank

RankSpec == RankInit /\ [][RankNext]_vars

(***************************************************************************)
(* The analysis step of POST on its own, over queries made of tokens that  *)
(* reach every branch of the analyzer: identifiers, common words, context  *)
(* keywords of each type, question patterns, and words that match nothing. *)
(***************************************************************************)
MaxTokens == 2

AnalyzerTokens ==
  {"SKU123456", "sale", "TOP", "ab", "paper", "plates", "organic", "ideas"}

Separators == {" ", "\t"}

Paddings == {"", " "}

AnalyzerQueries ==
  {padding \o Join(tokens, separator) \o padding :
     tokens \in UNION {[1..n -> AnalyzerTokens] : n \in 0..MaxTokens},
     separator \in Separators, padding \in Paddings}

AnalyzerInit ==
  /\ pc = "received"
  /\ request \in [query : AnalyzerQueries, queryEmbedding : {<<>>},
                  salesBoost : {NoNumber}, limit : {0}]
  /\ analysis = <<>>
  /\ concepts = <<>>
  /\ calls = <<>>
  /\ branches = [vector |-> NoBranch, keyword |-> NoBranch, concept |-> NoBranch]
  /\ response = <<>>

\* const analysis = analyzer.analyze(options.query)
Analyze ==
  /\ pc = "received"
  /\ analysis' = <<analyze(options.query)>>
  /\ pc' = "analyzed"
  /\ UNCHANGED <<request, concepts, calls, branches, response>>

AnalyzerNext == Analyze

AnalyzerSpec == AnalyzerInit /\ [][AnalyzerNext]_vars

(***************************************************************************)
(* The route with intent analysis (src/unnamed/part_007) up to its         *)
(* AnalysisResult, with the analyze-intent route (src/unnamed/part_005)    *)
(* and the completion service it calls as the environment.  Here `calls`   *)
(* holds the fetch of /api/analyze-intent with the completion's outcome    *)
(* and the route's reply, and `analysis` holds the AnalysisResult followed *)
(* by the handler's locals cleanQuery and extractedFilters.                *)
(***************************************************************************)
Undefined == "undefined"

IntentQueries == {"SKU123456", "paper plates", "organic pasta", ""}

\* an object as JSON.parse returns it: a field that is absent is Undefined,
\* NoNumber or <<>>; isObject is FALSE for the value null
AiObjects ==
  [isObject : {TRUE},
   strategy : {EXACT_MATCH, SEMANTIC, KEYWORD, "banana", Undefined},
   confidence : {NoNumber, (9 * ConfUnit) \div 10},
   context : {<<>>, <<[description |-> "User looking for products"]>>},
   suggestedTerms : {<<>>, << <<>> >>, << <<"edible">> >>},
   filters : {<<>>, <<[maxPrice |-> NoNumber]>>, <<[maxPrice |-> 100]>>},
   cleanQuery : {Undefined, "", "plates"}]

EmptyObject ==
  [isObject |-> TRUE, strategy |-> Undefined, confidence |-> NoNumber, context |-> <<>>,
   suggestedTerms |-> <<>>, filters |-> <<>>, cleanQuery |-> Undefined]

NullValue == [EmptyObject EXCEPT !.isObject = FALSE]

\* what openai.chat.completions.create can do: throw, or answer with a
\* message content that is absent, is no JSON text, or is the JSON text of a
\* value
Completions ==
  {[kind |-> "throw", message |-> "Connection error.", value |-> NullValue],
   [kind |-> "empty", message |-> "", value |-> NullValue],
   [kind |-> "text", message |-> "", value |-> NullValue]}
  \cup {[kind |-> "json", message |-> "", value |-> v] : v \in AiObjects \cup {NullValue}}

NoCompletion == [kind |-> "none", message |-> "", value |-> NullValue]

\* JSON.parse(response || "{}")
JSONParse(completion) ==
  CASE completion.kind = "empty" -> [threw |-> FALSE, value |-> EmptyObject]
    [] completion.kind = "text" -> [threw |-> TRUE, value |-> NullValue]
    [] completion.kind = "json" -> [threw |-> FALSE, value |-> completion.value]

\* the body analyze-intent answers with when the completion or its parsing failed
defaultIntent(query, message) ==
  [isObject |-> TRUE, strategy |-> KEYWORD, confidence |-> (5 * ConfUnit) \div 10,
   context |-> <<[error |-> message]>>, suggestedTerms |-> << <<>> >>,
   filters |-> <<[maxPrice |-> NoNumber]>>, cleanQuery |-> query]

NoIntentReply == [kind |-> "pending", ok |-> FALSE, status |-> 0, body |-> NullValue]

IntentInit ==
  /\ pc = "received"
  /\ request \in [query : IntentQueries, queryEmbedding : {<<>>},
                  salesBoost : {NoNumber}, limit : {0}]
  /\ analysis = <<>>
  /\ concepts = <<>>
  /\ calls = <<>>
  /\ branches = [vector |-> NoBranch, keyword |-> NoBranch, concept |-> NoBranch]
  /\ response = <<>>

\* the catch of the intent analysis: analysis = analyzer.analyze(options.query),
\* with cleanQuery and extractedFilters as they stand
fallBackToAnalyzer(cleanQuery, extractedFilters) ==
  /\ analysis' = <<analyze(options.query),
                   [cleanQuery |-> cleanQuery, extractedFilters |-> extractedFilters]>>
  /\ pc' = "analyzed"

\* POST of the search route up to its await of fetch
FetchIntent ==
  /\ pc = "received"
  /\ calls' = <<[site |-> "analyze-intent", query |-> options.query,
                 completion |-> NoCompletion, reply |-> NoIntentReply]>>
  /\ pc' = "fetching"
  /\ UNCHANGED <<request, analysis, concepts, branches, response>>

\* fetch rejects: the analyze-intent route cannot be reached
FetchFails ==
  /\ pc = "fetching"
  /\ calls' = [calls EXCEPT ![1].reply.kind = "unreachable"]
  /\ fallBackToAnalyzer(options.query, [maxPrice |-> NoNumber])
  /\ UNCHANGED <<request, concepts, branches, response>>

\* POST of analyze-intent up to its await of the completion
AnalyzeIntent ==
  /\ pc = "fetching"
  /\ IF calls[1].query = ""
     THEN /\ calls' = [calls EXCEPT ![1].reply =
                         [kind |-> "replied", ok |-> FALSE, status |-> 400,
                          body |-> EmptyObject]]
          /\ pc' = "replied"
     ELSE /\ pc' = "completing"
          /\ UNCHANGED calls
  /\ UNCHANGED <<request, analysis, concepts, branches, response>>

\* POST of analyze-intent after the completion settled
CompletionReply ==
  /\ pc = "completing"
  /\ \E completion \in Completions :
       LET query == calls[1].query
           body == IF completion.kind = "throw" THEN defaultIntent(query, completion.message)
                   ELSE IF JSONParse(completion).threw
                        THEN defaultIntent(query, "Failed to parse AI analysis")
                        ELSE JSONParse(completion).value
       IN calls' = [calls EXCEPT ![1].completion = completion,
                                 ![1].reply = [kind |-> "replied", ok |-> TRUE,
                                               status |-> 200, body |-> body]]
  /\ pc' = "replied"
  /\ UNCHANGED <<request, analysis, concepts, branches, response>>

\* POST of the search route after fetch resolved, to the end of its
\* try/catch around the intent analysis
IntentReply ==
  /\ pc = "replied"
  /\ LET intentResponse == calls[1].reply
         aiAnalysis == intentResponse.body
         extractedFilters == IF aiAnalysis.filters = <<>> THEN [maxPrice |-> NoNumber]
                             ELSE aiAnalysis.filters[1]
         cleanQuery == IF aiAnalysis.cleanQuery \in {Undefined, ""} THEN options.query
                       ELSE aiAnalysis.cleanQuery
     IN IF ~intentResponse.ok
        THEN fallBackToAnalyzer(options.query, [maxPrice |-> NoNumber])
        ELSE IF ~aiAnalysis.isObject
        THEN fallBackToAnalyzer(options.query, [maxPrice |-> NoNumber])
        ELSE /\ analysis' =
                  <<[strategy |-> aiAnalysis.strategy,
                     confidence |-> aiAnalysis.confidence,
                     identifierType |-> IF aiAnalysis.strategy = EXACT_MATCH THEN "sku" ELSE Null,
                     context |-> aiAnalysis.context,
                     suggestedChips |-> IF aiAnalysis.suggestedTerms = <<>> THEN <<>>
                                        ELSE aiAnalysis.suggestedTerms[1],
                     queryTerms |-> SplitWhitespace(ToLowerCase(cleanQuery))],
                    [cleanQuery |-> cleanQuery, extractedFilters |-> extractedFilters]>>
             /\ pc' = "analyzed"
  /\ UNCHANGED <<request, concepts, calls, branches, response>>

IntentNext ==
  \/ FetchIntent
  \/ FetchFails
  \/ AnalyzeIntent
  \/ CompletionReply
  \/ IntentReply

IntentSpec == IntentInit /\ [][IntentNext]_vars

(***************************************************************************)
(* Concurrent requests.  Every invocation of POST has its own body,        *)
(* analysis and response: the variables are functions of the invocation.   *)
(* The module-level analyzer and client are shared; the analyzer has no    *)
(* field that analyze writes, and the client is the one log of calls, each *)
(* call answered to the invocation that awaits it.  The queries are ones   *)
(* the analyzer classifies KEYWORD, so that POST runs performKeywordSearch.*)
(***************************************************************************)
MaxRequests == 2

Invocations == 1..MaxRequests

ConcurrentQueries == {"sale", "paper plates"}

\* { ...body, limit: Math.min(body.limit || DEFAULT_LIMIT, MAX_LIMIT) }
optionsOf(body) ==
  [body EXCEPT !.limit = Min(IF body.limit = 0 THEN DEFAULT_LIMIT ELSE body.limit, MAX_LIMIT)]

\* an analysis that the shared analyzer remembers from one call to the next
analyzeRemembering(r) ==
  IF \E other \in Invocations : analysis[other] # <<>>
  THEN analysis[CHOOSE other \in Invocations : analysis[other] # <<>>][1]
  ELSE analyze(optionsOf(request[r]).query)

\* analyzer.analyze(query), tabulated for the queries of the invocations
analyzerResults == [query \in ConcurrentQueries |-> analyze(query)]

\* analyzer.analyze(options.query) in invocation r
analyzeIn(r) == analyzerResults[optionsOf(request[r]).query]

ConcurrentInit ==
  /\ pc = [r \in Invocations |-> "received"]
  /\ request \in [Invocations -> [query : ConcurrentQueries, queryEmbedding : {<<>>},
                                  salesBoost : {NoNumber}, limit : {1}]]
  /\ analysis = [r \in Invocations |-> <<>>]
  /\ concepts = <<>>
  /\ calls = <<>>
  /\ branches = [vector |-> NoBranch, keyword |-> NoBranch, concept |-> NoBranch]
  /\ response = [r \in Invocations |-> <<>>]

\* POST in invocation r, from the parsed body to the await of
\* performKeywordSearch
PostIn(r) ==
  /\ pc[r] = "received"
  /\ analysis' = [analysis EXCEPT ![r] = <<analyzeIn(r)>>]
  /\ analyzeIn(r).strategy = KEYWORD
  /\ calls' = Append(calls,
                     [invocation |-> r, site |-> "keyword",
                      q |-> IF optionsOf(request[r]).query = "" THEN "*"
                            ELSE optionsOf(request[r]).query,
                      filter_by |-> "", per_page |-> optionsOf(request[r]).limit,
                      embedding |-> <<>>, reply |-> NoReply])
  /\ pc' = [pc EXCEPT ![r] = "keyword"]
  /\ UNCHANGED <<request, concepts, branches, response>>

\* the call invocation r awaits
awaitedBy(r) ==
  CHOOSE i \in 1..Len(calls) : calls[i].invocation = r /\ calls[i].reply.kind = "pending"

\* performKeywordSearch in invocation r after its await, and the rest of POST
KeywordReplyIn(r) ==
  /\ pc[r] = "keyword"
  /\ \E reply \in Replies(calls[awaitedBy(r)]) :
       /\ calls' = [calls EXCEPT ![awaitedBy(r)].reply = reply]
       /\ IF reply.kind = "throw"
          THEN response' = [response EXCEPT ![r] =
                 <<[success |-> FALSE, results |-> <<>>, count |-> 0,
                    strategy |-> Null, suggestedChips |-> <<>>, error |-> reply.message]>>]
          ELSE \E sorted \in sortByStockStatus(
                               IF reply.kind = "hits"
                               THEN processSearchResults(
                                      reply.hits,
                                      EffectiveSalesBoost(optionsOf(request[r]).salesBoost))
                               ELSE <<>>) :
                 response' = [response EXCEPT ![r] =
                   <<[success |-> TRUE, results |-> sorted, count |-> Len(sorted),
                      strategy |-> analysis[r][1].strategy,
                      suggestedChips |-> analysis[r][1].suggestedChips, error |-> ""]>>]
  /\ pc' = [pc EXCEPT ![r] = "done"]
  /\ UNCHANGED <<request, analysis, concepts, branches>>

ConcurrentNext ==
  \E r \in Invocations :
    \/ PostIn(r)
    \/ KeywordReplyIn(r)

ConcurrentSpec == ConcurrentInit /\ [][ConcurrentNext]_vars

(***************************************************************************)
(* The route with intent analysis (src/unnamed/part_007) after its         *)
(* AnalysisResult: the filter string it builds from the extracted filters, *)
(* the body's filters and the body's stockPriority, the keyword search     *)
(* that carries it to the backend, and the backend applying it.            *)
(***************************************************************************)
FilterQueries == {"sale", "paper plates"}

\* the extracted filters, by their brand and inStock fields (a field that is
\* absent is "" or FALSE, which the code's tests treat alike)
ExtractedFilters == [brand : {"", "Tofurky"}, inStock : BOOLEAN]

\* the filters of the body ("" when absent)
BodyFilters == {"", "brand:=Dixie"}

FilterSeparator == " && "

buildFilterString(extractedFilters, existingFilters, stockPriority) ==
  LET brandPart == IF extractedFilters.brand # ""
                   THEN <<"brand:=" \o extractedFilters.brand>> ELSE <<>>
      stockPart == IF extractedFilters.inStock THEN <<"is_in_stock:=true">> ELSE <<>>
      priorityPart == IF stockPriority /\ ~extractedFilters.inStock
                      THEN <<"is_in_stock:=true">> ELSE <<>>
      existingPart == IF existingFilters # "" THEN <<existingFilters>> ELSE <<>>
  IN Join(brandPart \o stockPart \o priorityPart \o existingPart, FilterSeparator)

\* the conjuncts of a filter_by expression
RECURSIVE FilterConjuncts(_)
FilterConjuncts(filter_by) ==
  IF filter_by = "" THEN <<>>
  ELSE IF Includes(filter_by, FilterSeparator)
       THEN LET i == CHOOSE k \in 1..Len(filter_by) :
                       /\ SubSeq(filter_by, k, k + Len(FilterSeparator) - 1) = FilterSeparator
                       /\ ~Includes(SubSeq(filter_by, 1, k + Len(FilterSeparator) - 2),
                                    FilterSeparator)
            IN <<SubSeq(filter_by, 1, i - 1)>>
                 \o FilterConjuncts(SubSeq(filter_by, i + Len(FilterSeparator), Len(filter_by)))
       ELSE <<filter_by>>

\* the backend's test of a document against one conjunct
SatisfiesConjunct(document, conjunct) ==
  IF conjunct = "is_in_stock:=true" THEN document.is_in_stock = "true"
  ELSE IF StartsWith(conjunct, "brand:=")
       THEN document.brand = SubSeq(conjunct, Len("brand:=") + 1, Len(conjunct))
       ELSE FALSE

SatisfiesFilter(document, filter_by) ==
  \A i \in 1..Len(FilterConjuncts(filter_by)) :
     SatisfiesConjunct(document, FilterConjuncts(filter_by)[i])

\* what client.multiSearch.perform can do with a filtered call: throw, answer
\* without a hits field, or answer with at most per_page of the matching
\* documents that satisfy filter_by
FilteredReplies(call) ==
  {[kind |-> "throw", hits |-> <<>>, message |-> m] : m \in ErrorMessages}
  \cup {[kind |-> "nohits", hits |-> <<>>, message |-> ""]}
  \cup {[kind |-> "hits", hits |-> h, message |-> ""] :
          h \in HitLists({t \in TextHits : SatisfiesFilter(t.document, call.filter_by)},
                         Min(call.per_page, MaxHits))}

FilterInit ==
  /\ pc = "analyzed"
  /\ request \in [query : FilterQueries, queryEmbedding : {<<>>}, salesBoost : SalesBoosts,
                  limit : Limits, filters : BodyFilters, stockPriority : BOOLEAN]
  /\ \E extractedFilters \in ExtractedFilters :
       analysis = <<analyze(request.query),
                    [cleanQuery |-> request.query, extractedFilters |-> extractedFilters]>>
  /\ concepts = <<>>
  /\ calls = <<>>
  /\ branches = [vector |-> NoBranch, keyword |-> NoBranch, concept |-> NoBranch]
  /\ response = <<>>

\* POST from buildFilterString to performKeywordSearch's await
DispatchFiltered ==
  /\ pc = "analyzed"
  /\ analysis[1].strategy = KEYWORD
  /\ LET filterString == buildFilterString(analysis[2].extractedFilters, options.filters,
                                           options.stockPriority)
         cleanQuery == analysis[2].cleanQuery
     IN calls' = <<[site |-> "keyword", q |-> IF cleanQuery = "" THEN "*" ELSE cleanQuery,
                    filter_by |-> filterString, per_page |-> options.limit,
                    embedding |-> <<>>, reply |-> NoReply]>>
  /\ pc' = "searching"
  /\ UNCHANGED <<request, analysis, concepts, branches, response>>

\* performKeywordSearch after its await, then POST to its response
FilteredReply ==
  /\ pc = "searching"
  /\ \E reply \in FilteredReplies(calls[1]) :
       /\ calls' = [calls EXCEPT ![1].reply = reply]
       /\ CASE reply.kind = "throw" -> RespondError(reply.message)
            [] reply.kind = "nohits" -> Respond(<<>>)
            [] reply.kind = "hits" ->
                 Respond(processSearchResults(reply.hits, effectiveSalesBoost))
  /\ UNCHANGED <<request, analysis, concepts, branches>>

FilterNext ==
  \/ DispatchFiltered
  \/ FilteredReply

FilterSpec == FilterInit /\ [][FilterNext]_vars

(***************************************************************************)
(* The vector search alone: performVectorSearch from the backend's answer  *)
(* to its scored products, over hits whose distances and sales counts vary *)
(* independently.                                                          *)
(***************************************************************************)
\* the distances the backend reports for a hit (0 for an identical vector)
VectorDistances == {0, ScoreUnit \div 4, ScoreUnit \div 2, ScoreUnit}

\* what the backend can return for a document on a vector search
NearHits ==
  {[document |-> d, text_match |-> 0, vector_distance |-> x] :
     d \in Documents, x \in VectorDistances}

VectorInit ==
  /\ pc = "semantic"
  /\ request \in [query : {"organic pasta"}, queryEmbedding : {<<Embedding(2)>>},
                  salesBoost : SalesBoosts, limit : {0}]
  /\ analysis = <<analyze(request.query)>>
  /\ concepts = <<>>
  /\ calls = <<VectorCall(request.queryEmbedding[1])>>
  /\ branches = [vector |-> PendingBranch, keyword |-> NoBranch, concept |-> NoBranch]
  /\ response = <<>>

\* performVectorSearch after its await: the hits scored by processSearchResults
ScoreVectorHits ==
  /\ pc = "semantic"
  /\ IsPending("vector")
  /\ \E hits \in HitLists(NearHits, MaxHits) :
       /\ calls' = Answered("vector", [kind |-> "hits", hits |-> hits, message |-> ""])
       /\ branches' = [branches EXCEPT
                         !.vector = Fulfilled(processSearchResults(hits, effectiveSalesBoost))]
  /\ pc' = "scored"
  /\ UNCHANGED <<request, analysis, concepts, response>>

VectorNext == ScoreVectorHits

VectorSpec == VectorInit /\ [][VectorNext]_vars

(***************************************************************************)
(* The search page (src/app/page.tsx).  Here `response` holds the state    *)
(* the component displays, `request` the arguments of the invocations of   *)
(* handleSearch in the order they were issued, `pc` the position of each   *)
(* invocation, `analysis` the answer each invocation got from /api/search  *)
(* and `calls` the timers set by handleCollectionChange.  The embeddings   *)
(* route and the search route are the environment.                         *)
(***************************************************************************)
MaxSearches == 2

\* the positions of the displayed chips the user clicks
ChipChoices == {1, 2}

\* what the user submits from the search bar or the example searches
PageQueries == {"sale", "paper plates", "  "}

Collections == {"all", "products"}

\* the result lists /api/search answers with
PageResults == {<<>>, <<Scored(docA, ScoreUnit)>>, <<Scored(docB, 2 * ScoreUnit)>>}

NoData ==
  [kind |-> "pending", success |-> FALSE, results |-> <<>>, strategy |-> Null,
   suggestedChips |-> <<>>, error |-> ""]

\* what fetch("/api/search") and searchResponse.json() can give for a query:
\* a rejection, a body with success false, or a body with success true that
\* carries the query's strategy and chips
SearchData(query) ==
  {[NoData EXCEPT !.kind = "reject", !.error = "Failed to fetch"],
   [NoData EXCEPT !.kind = "json", !.error = "connect ECONNREFUSED"]}
  \cup LET result == analyze(query)
       IN {[kind |-> "json", success |-> TRUE, results |-> r,
            strategy |-> result.strategy,
            suggestedChips |-> result.suggestedChips, error |-> ""] :
             r \in PageResults}

PageInit ==
  /\ pc = <<>>
  /\ request = <<>>
  /\ analysis = <<>>
  /\ concepts = <<>>
  /\ calls = <<>>
  /\ branches = [vector |-> NoBranch, keyword |-> NoBranch, concept |-> NoBranch]
  /\ response = [results |-> <<>>, loading |-> FALSE, error |-> "", searchTerm |-> "",
                 hasSearched |-> FALSE, searchStrategy |-> Null, suggestedChips |-> <<>>,
                 selectedCollection |-> "all"]

\* handleSearch(query), as created in a render with the given collection,
\* up to its first await; state is the component state it updates
handleSearch(query, collection, state) ==
  IF Trim(query) = ""
  THEN /\ response' = state
       /\ UNCHANGED <<pc, request, analysis>>
  ELSE /\ Len(request) < MaxSearches
       /\ response' = [state EXCEPT !.loading = TRUE, !.error = "", !.hasSearched = TRUE,
                                    !.searchTerm = query]
       /\ request' = Append(request, [query |-> query, collection |-> collection])
       /\ pc' = Append(pc, "embeddings")
       /\ analysis' = Append(analysis, NoData)

\* the search bar's onSearch, or a click on an example search
SubmitSearch ==
  /\ \E query \in PageQueries : handleSearch(query, response.selectedCollection, response)
  /\ UNCHANGED <<concepts, calls, branches>>

handleChipClick ==
  /\ \E k \in ChipChoices \cap (1..Len(response.suggestedChips)) :
       LET chip == response.suggestedChips[k]
           newQuery == Trim(response.searchTerm \o " " \o chip)
       IN handleSearch(newQuery, response.selectedCollection,
                       [response EXCEPT !.searchTerm = newQuery])
  /\ UNCHANGED <<concepts, calls, branches>>

\* the timer's callback is the handleSearch of the render in which the
\* collection was changed, with that render's searchTerm and collection
handleCollectionChange ==
  /\ \E collection \in Collections :
       IF Trim(response.searchTerm) # ""
       THEN /\ Len(request) + Len(calls) < MaxSearches
            /\ response' = [response EXCEPT !.selectedCollection = collection,
                                            !.results = <<>>]
            /\ calls' = Append(calls, [site |-> "setTimeout",
                                       query |-> response.searchTerm,
                                       collection |-> response.selectedCollection])
       ELSE /\ response' = [response EXCEPT !.selectedCollection = collection]
            /\ UNCHANGED calls
  /\ UNCHANGED <<pc, request, analysis, concepts, branches>>

\* the callback of the oldest timer runs
TimerFires ==
  /\ calls # <<>>
  /\ handleSearch(calls[1].query, calls[1].collection, response)
  /\ calls' = Tail(calls)
  /\ UNCHANGED <<concepts, branches>>

\* handleSearch of invocation i after the embeddings fetch settled, up to its
\* await of the search fetch
EmbeddingSettled(i) ==
  /\ pc[i] = "embeddings"
  /\ pc' = [pc EXCEPT ![i] = "search"]
  /\ UNCHANGED <<request, analysis, concepts, calls, branches, response>>

\* handleSearch of invocation i after the search fetch settled, to its end
SearchSettled(i) ==
  /\ pc[i] = "search"
  /\ \E data \in SearchData(request[i].query) :
       /\ analysis' = [analysis EXCEPT ![i] = data]
       /\ response' =
            IF data.kind = "json" /\ data.success
            THEN [response EXCEPT !.results = data.results,
                                  !.searchStrategy = data.strategy,
                                  !.suggestedChips = data.suggestedChips,
                                  !.loading = FALSE]
            ELSE [response EXCEPT !.error = data.error, !.results = <<>>,
                                  !.loading = FALSE]
  /\ pc' = [pc EXCEPT ![i] = "done"]
  /\ UNCHANGED <<request, concepts, calls, branches>>

PageNext ==
  \/ SubmitSearch
  \/ handleChipClick
  \/ handleCollectionChange
  \/ TimerFires
  \/ \E i \in 1..Len(pc) : EmbeddingSettled(i)
  \/ \E i \in 1..Len(pc) : SearchSettled(i)

PageSpec == PageInit /\ [][PageNext]_vars

(***************************************************************************)
(* Properties                                                              *)
(***************************************************************************)
finished == pc = "done" /\ response # <<>>

strategyIs(strategy) == analysis # <<>> /\ analysis[1].strategy = strategy

\* the request has an embedding of at least one dimension
carriesEmbedding ==
  request.queryEmbedding # <<>> /\ Len(request.queryEmbedding[1]) > 0

\* the indices of the backend calls issued from one call site
CallsTo(site) == {i \in 1..Len(calls) : calls[i].site = site}

Threw(site) == \E i \in CallsTo(site) : calls[i].reply.kind = "throw"

\* the skus of the documents the backend returned to a call site
BackendSkus(site) ==
  UNION {{calls[i].reply.hits[j].document.sku : j \in 1..Len(calls[i].reply.hits)} :
           i \in {k \in CallsTo(site) : calls[k].reply.kind = "hits"}}

Skus(products) == {products[i].sku : i \in 1..Len(products)}

\* the <<sku, score>> pairs of a product list
SkuScores(products) == {<<products[i].sku, products[i].score>> : i \in 1..Len(products)}

\* C1: for a request classified KEYWORD whose backend call throws, the
\* response is success=false with an empty result list, count 0 and the
\* thrown error's message: performKeywordSearch does not swallow the failure
C1_KeywordFailureReported ==
  strategyIs(KEYWORD) =>
    \A i \in CallsTo("keyword") :
      calls[i].reply.kind = "throw" =>
        /\ finished
        /\ response[1].success = FALSE
        /\ response[1].results = <<>>
        /\ response[1].count = 0
        /\ response[1].error = calls[i].reply.message

C1_Witness ==
  /\ strategyIs(KEYWORD)
  /\ Threw("keyword")
  /\ finished
  /\ response[1].error = "connect ECONNREFUSED"

\* C2: a SEMANTIC request with a non-empty embedding joins its sub-searches
\* with settle-all semantics: whichever of them fail, the response is
\* success=true and its skus are exactly the skus the backend returned to the
\* sub-searches that did not fail
C2_SettleAll ==
  (strategyIs(SEMANTIC) /\ carriesEmbedding /\ pc = "done") =>
    /\ finished
    /\ response[1].success = TRUE
    /\ Skus(response[1].results) =
         BackendSkus("vector") \cup BackendSkus("conceptKeyword")
           \cup BackendSkus("conceptCombination")

\* the vector branch failed, the concept-combination branch returned nothing,
\* the concept-aware keyword branch returned hits, and the response has them
C2_Witness ==
  /\ strategyIs(SEMANTIC) /\ carriesEmbedding /\ finished
  /\ Threw("vector") /\ BackendSkus("vector") = {}
  /\ CallsTo("conceptCombination") # {} /\ BackendSkus("conceptCombination") = {}
  /\ ~Threw("conceptKeyword")
  /\ BackendSkus("conceptKeyword") = {"A", "B"}
  /\ response[1].success = TRUE
  /\ Skus(response[1].results) = {"A", "B"}

\* C3: a request fails (success=false) only when a call of
\* performKeywordSearch threw: EXACT requests and SEMANTIC requests with a
\* non-empty embedding succeed under every combination of backend failures,
\* and a SEMANTIC request without embedding fails exactly when its keyword
\* call throws
C3_FailedOnlyOnKeywordError ==
  finished =>
    /\ response[1].success = FALSE <=> Threw("keyword")
    /\ strategyIs(EXACT_MATCH) => response[1].success = TRUE
    /\ (strategyIs(SEMANTIC) /\ carriesEmbedding) => response[1].success = TRUE
    /\ (strategyIs(SEMANTIC) /\ ~carriesEmbedding) =>
         (response[1].success = FALSE <=> Threw("keyword"))

\* an EXACT request both of whose backend calls threw, answered with success
C3_Witness ==
  /\ strategyIs(EXACT_MATCH) /\ finished
  /\ Threw("exact") /\ Threw("fallback")
  /\ response[1].success = TRUE

\* C4: a request whose query is empty or whitespace-only is rejected before
\* dispatch: no backend call is issued for it and its result is empty
C4_BlankQueryRejected ==
  Trim(request.query) = "" =>
    /\ calls = <<>>
    /\ response # <<>> => response[1].results = <<>>

\* C5: for an EXACT request, performFallbackSearch is called exactly once,
\* with the same request, when the exact search gave no hit or threw, and its
\* result is the response's; when the fallback's call throws the response is
\* still success=true with an empty list
C5_ExactFallsBackOnce ==
  strategyIs(EXACT_MATCH) =>
    /\ Cardinality(CallsTo("exact")) = 1
    /\ Cardinality(CallsTo("fallback")) <= 1
    /\ \A i \in CallsTo("exact") :
         LET reply == calls[i].reply
             noHit == \/ reply.kind \in {"throw", "nohits"}
                      \/ reply.kind = "hits" /\ reply.hits = <<>>
         IN /\ noHit <=> CallsTo("fallback") # {}
            /\ reply.kind = "pending" => pc = "exact"
    /\ \A j \in CallsTo("fallback") :
         LET reply == calls[j].reply
         IN /\ calls[j].q = request.query
            /\ calls[j].per_page = options.limit
            /\ reply.kind = "pending" <=> pc = "fallback"
            /\ reply.kind # "pending" =>
                 /\ finished
                 /\ response[1].success = TRUE
                 /\ response[1].count = Len(reply.hits)
                 /\ SkuScores(response[1].results) =
                      {<<reply.hits[k].document.sku, reply.hits[k].text_match>> :
                         k \in 1..Len(reply.hits)}
                 /\ reply.kind = "throw" => response[1].results = <<>>

\* the exact search threw, the fallback returned two hits, which are the response
C5_Witness ==
  /\ strategyIs(EXACT_MATCH) /\ finished
  /\ Threw("exact")
  /\ BackendSkus("fallback") = {"A", "B"}
  /\ Skus(response[1].results) = {"A", "B"}
  /\ response[1].success = TRUE

\* C6: a SEMANTIC request whose embedding is absent or empty makes exactly
\* one backend call, performKeywordSearch's; no vector, concept-aware or
\* concept-combination sub-search is issued and the keyword results are not
\* fused (each hit is one result with its keyword score, duplicates included)
C6_SemanticWithoutEmbedding ==
  (strategyIs(SEMANTIC) /\ ~carriesEmbedding) =>
    /\ Len(calls) = 1
    /\ calls[1].site = "keyword"
    /\ \A name \in DOMAIN branches : branches[name].status = "absent"
    /\ concepts = <<>>
    /\ (finished /\ calls[1].reply.kind = "hits") =>
         LET hits == calls[1].reply.hits
         IN /\ response[1].count = Len(hits)
            /\ SkuScores(response[1].results) =
                 {<<hits[k].document.sku,
                    SalesAdjusted(hits[k].text_match, hits[k].document.sales_count,
                                  EffectiveSalesBoost(request.salesBoost))>> :
                    k \in 1..Len(hits)}

\* a SEMANTIC request with an empty embedding answered from one keyword call
\* that returned the same document twice
C6_Witness ==
  /\ strategyIs(SEMANTIC) /\ request.queryEmbedding = <<Embedding(0)>>
  /\ finished
  /\ Len(calls) = 1
  /\ calls[1].reply.kind = "hits" /\ Len(calls[1].reply.hits) = 2
  /\ BackendSkus("keyword") = {"A"}
  /\ response[1].count = 2

\* C7 as the specification words it: whenever a vector call fails with a
\* payload error, one retry follows with the embedding cut to its first 768
\* dimensions
C7_RetryOnEveryPayloadError ==
  \A i \in CallsTo("vector") :
    (/\ \A k \in CallsTo("vector") : i <= k
     /\ calls[i].reply.kind = "throw"
     /\ Includes(calls[i].reply.message, "payload")) =>
      \E j \in CallsTo("vector") :
        /\ j > i
        /\ calls[j].embedding =
             SubSeq(calls[i].embedding, 1, Min(Len(calls[i].embedding), TruncatedDimensions))

\* C7: a vector call that fails is retried exactly when the error's message
\* contains "payload" and the embedding sent has more than 768 dimensions;
\* the retry is one call with the first 768 dimensions.  A failure of any
\* other kind, of a shorter embedding, or of the retry itself ends the vector
\* branch with an empty result list and no further call
C7_RetryOnPayloadErrorOfLongEmbedding ==
  \A i \in CallsTo("vector") :
    LET reply == calls[i].reply
        later == {j \in CallsTo("vector") : j > i}
    IN reply.kind = "throw" =>
         IF Includes(reply.message, "payload") /\ Len(calls[i].embedding) > 768
         THEN /\ Cardinality(later) = 1
              /\ \A j \in later : calls[j].embedding = SubSeq(calls[i].embedding, 1, 768)
         ELSE /\ later = {}
              /\ branches.vector = Fulfilled(<<>>)

\* a payload error on 769 dimensions, retried with 768, and the retry failed
C7_Witness ==
  /\ Cardinality(CallsTo("vector")) = 2
  /\ \A i \in CallsTo("vector") : calls[i].reply.kind = "throw"
  /\ \E i, j \in CallsTo("vector") :
       /\ i < j
       /\ Len(calls[i].embedding) = 769
       /\ Includes(calls[i].reply.message, "payload")
       /\ calls[j].embedding = Embedding(768)
  /\ branches.vector = Fulfilled(<<>>)

C8_CallBounds ==
  /\ Cardinality(CallsTo("vector")) <= 2
  /\ \A site \in {"exact", "fallback", "keyword", "conceptKeyword", "conceptCombination"} :
       Cardinality(CallsTo(site)) <= 1
  /\ strategyIs(SEMANTIC) => Len(calls) <= 4
  /\ strategyIs(EXACT_MATCH) => Len(calls) <= 2
  /\ strategyIs(KEYWORD) => Len(calls) <= 1

\* a request not yet answered is one a handler can continue: it is still to
\* be dispatched, or a backend call its executor awaits is pending; an
\* answered request has a response and awaits nothing
C8_Continues ==
  /\ pc = "exact" => IsPending("exact")
  /\ pc = "fallback" => IsPending("fallback")
  /\ pc = "keyword" => IsPending("keyword")
  /\ pc = "semantic" =>
       IsPending("vector") \/ IsPending("conceptKeyword") \/ IsPending("conceptCombination")
  /\ pc \in {"received", "exact", "fallback", "keyword", "semantic", "done"}
  /\ pc = "done" =>
       /\ response # <<>>
       /\ \A i \in 1..Len(calls) : calls[i].reply.kind # "pending"

\* the steps a request can still take: one to dispatch it and one for every
\* pending call, two for a pending call whose failure can cause another call
C8_StepsLeft ==
  LET cost(call) ==
        IF call.reply.kind # "pending" THEN 0
        ELSE IF \/ call.site = "exact"
                \/ call.site = "vector" /\ Len(call.embedding) > 768
             THEN 2
             ELSE 1
      total[i \in 0..Len(calls)] == IF i = 0 THEN 0 ELSE total[i - 1] + cost(calls[i])
  IN (IF pc = "received" THEN 5 ELSE 0) + total[Len(calls)]

C9_FusionDistinctSkus ==
  (strategyIs(SEMANTIC) /\ carriesEmbedding /\ finished) =>
    LET results == response[1].results
    IN \A i, j \in 1..Len(results) : i # j => results[i].sku # results[j].sku

\* the vector branch returned one document twice, the concept-aware keyword
\* branch returned it too, and the response holds it once
C9_Witness ==
  /\ strategyIs(SEMANTIC) /\ carriesEmbedding /\ finished
  /\ Len(branches.vector.value) = 2 /\ Skus(branches.vector.value) = {"A"}
  /\ "A" \in Skus(branches.keyword.value)
  /\ Cardinality({i \in 1..Len(response[1].results) : response[1].results[i].sku = "A"}) = 1

\* the sum of score * percent / 100 over the products of a list with a sku
WeightedTotal(products, sku, percent) ==
  LET total[i \in 0..Len(products)] ==
        IF i = 0 THEN 0
        ELSE total[i - 1] + (IF products[i].sku = sku
                             THEN (products[i].score * percent) \div 100 ELSE 0)
  IN total[Len(products)]

FusionOrders ==
  {order \in [1..3 -> {"vector", "keyword", "concept"}] :
     \A i, j \in 1..3 : order[i] = order[j] => i = j}

\* the code's accumulation and multi-source boost, with the three addProducts
\* calls made in a given order
fusedInOrder(order, lists, weights) ==
  LET accumulated ==
        addProducts(
          addProducts(
            addProducts(<<>>, lists[order[1]], order[1], weights[order[1]]),
            lists[order[2]], order[2], weights[order[2]]),
          lists[order[3]], order[3], weights[order[3]])
  IN [i \in 1..Len(accumulated) |->
        [accumulated[i].product EXCEPT
           !.score = MultiSourceBoost(@, Cardinality(accumulated[i].sources))]]

ranked == pc = "done" /\ response # <<>> /\ response[1].success

\* the list the strategy returned, before the ranking step
strategyResults == branches.keyword.value

\* C12: with stock priority requested, in the result list of a successful
\* response no product with is_in_stock = false precedes a product that is
\* not out of stock, whatever the two scores are
C12_StockDominatesScore ==
  (ranked /\ request.stockPriority) =>
    LET results == response[1].results
    IN \A i, j \in 1..Len(results) :
         (i < j /\ results[i].is_in_stock = "false") => results[j].is_in_stock = "false"

\* the strategy returned an out-of-stock product ahead of an in-stock product
\* of the same score and ahead of an in-stock product of a lower score
C12_Witness ==
  /\ ranked /\ request.stockPriority
  /\ \E i, j, k \in 1..Len(strategyResults) :
       /\ i < j /\ i < k
       /\ strategyResults[i].is_in_stock = "false"
       /\ strategyResults[j].is_in_stock = "true"
       /\ strategyResults[k].is_in_stock = "true"
       /\ strategyResults[i].score = strategyResults[j].score
       /\ strategyResults[i].score > strategyResults[k].score
  /\ Len(response[1].results) = Len(strategyResults)

\* C13: when the request's stockPriority is false the result list of a
\* successful response is in descending order of score
C13_ScoreOrderWithoutStockPriority ==
  (ranked /\ ~request.stockPriority) =>
    LET results == response[1].results
    IN \A i, j \in 1..Len(results) : i < j => results[i].score >= results[j].score

\* C20: of two products of a successful response with the same stock status
\* the one with the strictly higher score comes first
C20_ScoreOrderWithinPartition ==
  ranked =>
    LET results == response[1].results
    IN \A i, j \in 1..Len(results) :
         (i < j /\ results[i].is_in_stock = results[j].is_in_stock)
           => results[i].score >= results[j].score

\* C14: with salesBoost = 0 in the request the popularity multiplier is 1:
\* every product of a keyword search's success response carries the
\* text-match score of its hit, whatever its sales_count
C14_ZeroSalesBoostIsPureRelevance ==
  (strategyIs(KEYWORD) /\ request.salesBoost = 0 /\ ranked) =>
    LET results == response[1].results
    IN \A i \in 1..Len(results) :
         \E hit \in TextHits : /\ hit.document.sku = results[i].sku
                               /\ results[i].score = hit.text_match

\* POST has the AnalysisResult of its query
analyzed == pc = "analyzed" /\ analysis # <<>>

\* the query as the analyzer reads it
trimmedQuery == Trim(request.query)

singleToken == \A i \in 1..Len(trimmedQuery) : ~IsSpace(CharAt(trimmedQuery, i))

inStoplist == ToLowerCase(trimmedQuery) \in {"sale", "new", "all", "best", "top", "food"}

matchesIdentifierPattern ==
  \E i \in 1..Len(PatternNames) : MatchesPattern(PatternNames[i], trimmedQuery)

\* C15: a query that after trimming is a single token, is not in the stoplist
\* and matches an identifier pattern is classified EXACT with confidence 1.0,
\* an identifier type, no context and no chips; a query with whitespace inside
\* or equal to a stoplist word is never classified EXACT
C15_IdentifierIsExact ==
  analyzed =>
    /\ (singleToken /\ ~inStoplist /\ matchesIdentifierPattern) =>
         /\ analysis[1].strategy = EXACT_MATCH
         /\ analysis[1].confidence = ConfUnit
         /\ analysis[1].identifierType \in SeqToSet(PatternNames)
         /\ analysis[1].context = <<>>
         /\ analysis[1].suggestedChips = <<>>
    /\ (~singleToken \/ inStoplist) => analysis[1].strategy # EXACT_MATCH

\* an identifier with blanks around it was classified EXACT
C15_Witness ==
  /\ analyzed
  /\ request.query = " SKU123456 "
  /\ analysis[1].strategy = EXACT_MATCH
  /\ analysis[1].identifierType = "sku"

\* the clamped context score of the query
contextScore == extractContext(trimmedQuery).confidence

\* C16: for a query that is no identifier the strategy is SEMANTIC, with the
\* context score as confidence, exactly when the context score exceeds 0.4;
\* otherwise it is KEYWORD with confidence max(0.3, context score) and the
\* context attached only for a positive score.  KEYWORD confidences lie in
\* [0.3, 0.4], SEMANTIC ones in (0.4, 1], and every confidence in [0, 1].
C16_StrategyByContextScore ==
  analyzed =>
    LET score == contextScore
        result == analysis[1]
    IN /\ result.confidence >= 0 /\ result.confidence <= ConfUnit
       /\ ~(singleToken /\ ~inStoplist /\ matchesIdentifierPattern) =>
            /\ result.strategy = SEMANTIC <=> score > (4 * ConfUnit) \div 10
            /\ result.strategy = SEMANTIC =>
                 /\ result.confidence = score
                 /\ result.context # <<>>
                 /\ result.confidence > (4 * ConfUnit) \div 10
            /\ result.strategy # SEMANTIC =>
                 /\ result.strategy = KEYWORD
                 /\ result.confidence = Max((3 * ConfUnit) \div 10, score)
                 /\ result.context # <<>> <=> score > 0
                 /\ result.confidence >= (3 * ConfUnit) \div 10
                 /\ result.confidence <= (4 * ConfUnit) \div 10

\* a query whose context score is exactly 0.4 was classified KEYWORD
C16_Witness ==
  /\ analyzed
  /\ request.query = "paper plates"
  /\ contextScore = (4 * ConfUnit) \div 10
  /\ analysis[1].strategy = KEYWORD
  /\ analysis[1].confidence = (4 * ConfUnit) \div 10
  /\ analysis[1].context # <<>>

categoryDefaults == {"in Snacks", "in Beverages", "in Paper Products", "in Kitchen Equipment"}

attributeDefaults == {"Organic", "Gluten-Free", "Bulk Size"}

intentDefaults == {"for Restaurant", "for Home", "for Catering"}

\* the context the analyzer extracted, attached to the result or not
extractedContext == extractContext(trimmedQuery)

\* C17: the suggested chips are at most 8; there are none for an EXACT or
\* SEMANTIC result; a KEYWORD result without a matched category has a
\* category default among them, without a matched attribute an attribute
\* default, and without a matched intent an intent default
C17_ChipsBoundedWithDefaults ==
  analyzed =>
    LET chips == SeqToSet(analysis[1].suggestedChips)
        context == extractedContext
    IN /\ Len(analysis[1].suggestedChips) <= 8
       /\ analysis[1].strategy \in {EXACT_MATCH, SEMANTIC} => analysis[1].suggestedChips = <<>>
       /\ analysis[1].strategy = KEYWORD =>
            /\ context.categories = <<>> => chips \cap categoryDefaults # {}
            /\ context.attributes = <<>> => chips \cap attributeDefaults # {}
            /\ context.intents = <<>> => chips \cap intentDefaults # {}

\* a KEYWORD result with no category, attribute or intent matched has eight
\* chips, the last of them the one intent default that fits
C17_Witness ==
  /\ analyzed
  /\ analysis[1].strategy = KEYWORD
  /\ extractedContext.categories = <<>>
  /\ extractedContext.attributes = <<>>
  /\ extractedContext.intents = <<>>
  /\ Len(analysis[1].suggestedChips) = 8
  /\ analysis[1].suggestedChips[8] \in intentDefaults

\* the intent analysis was unreachable, failed, or its completion was no JSON
\* text or the JSON text of something that is no analysis
collaboratorFailed ==
  /\ calls # <<>>
  /\ \/ calls[1].reply.kind = "unreachable"
     \/ calls[1].reply.kind = "replied" /\ ~calls[1].reply.ok
     \/ calls[1].completion.kind \in {"throw", "text", "empty"}
     \/ /\ calls[1].completion.kind = "json"
        /\ \/ ~calls[1].completion.value.isObject
           \/ calls[1].completion.value.strategy \notin {EXACT_MATCH, SEMANTIC, KEYWORD}
           \/ calls[1].completion.value.confidence = NoNumber

\* C18: when the intent analysis is unreachable, fails or returns unparseable
\* or malformed content, the AnalysisResult used for dispatch is the one
\* analyze produces for the query
C18_FallsBackToAnalyzer ==
  (pc = "analyzed" /\ collaboratorFailed) => analysis[1] = analyze(request.query)

\* what analyze gives for each query taken alone
classifiedAlone == [query \in {"sale", "paper plates"} |-> analyze(query)]

\* the calls issued for invocation r
callsOf(r) == {i \in 1..Len(calls) : calls[i].invocation = r}

\* what the request of invocation r and the reply to its own call determine:
\* the responses POST can give
ownResponses(r) ==
  LET own == calls[CHOOSE i \in callsOf(r) : TRUE]
      classified == classifiedAlone[request[r].query]
      boost == IF request[r].salesBoost = NoNumber \/ request[r].salesBoost = 0
               THEN 1 ELSE request[r].salesBoost
  IN IF own.reply.kind = "throw"
     THEN {[success |-> FALSE, results |-> <<>>, count |-> 0, strategy |-> Null,
            suggestedChips |-> <<>>, error |-> own.reply.message]}
     ELSE {[success |-> TRUE, results |-> sorted, count |-> Len(sorted),
            strategy |-> classified.strategy,
            suggestedChips |-> classified.suggestedChips, error |-> ""] :
             sorted \in sortByStockStatus(processSearchResults(own.reply.hits, boost))}

genericChips == {"Premium Brands", "Budget Options", "On Sale"}

popularityChips == {"Most Popular", "New Arrivals", "Best Sellers"}

\* C21: the chips of every KEYWORD result contain the three generic
\* brand/price chips
C21_GenericChipsAlwaysPresent ==
  (analyzed /\ analysis[1].strategy = KEYWORD) =>
    genericChips \subseteq SeqToSet(analysis[1].suggestedChips)

\* C22: the chips of a KEYWORD result for a query shorter than 10 characters
\* with a context confidence below 0.3 include the three popularity chips
C22_PopularityChipsForShortQueries ==
  (/\ analyzed
   /\ analysis[1].strategy = KEYWORD
   /\ Len(trimmedQuery) < 10
   /\ contextScore < (3 * ConfUnit) \div 10) =>
    popularityChips \subseteq SeqToSet(analysis[1].suggestedChips)

\* the taxonomies in which the context attached to the result has matches
matchedTaxonomies ==
  IF analysis[1].context = <<>> THEN {}
  ELSE {t \in SeqToSet(ContextTypes) : analysis[1].context[1][t] # <<>>}

\* C29: every KEYWORD result has matches in at most one of the four
\* taxonomies and carries exactly 8 suggested chips
C29_KeywordHasEightChips ==
  (analyzed /\ analysis[1].strategy = KEYWORD) =>
    /\ Cardinality(matchedTaxonomies) <= 1
    /\ Len(analysis[1].suggestedChips) = 8

\* a KEYWORD result with matches in one taxonomy, by two tokens, for a query
\* of ten characters or more: nine chips were built and eight kept
C29_Witness ==
  /\ analyzed
  /\ analysis[1].strategy = KEYWORD
  /\ request.query = "paper plates"
  /\ matchedTaxonomies = {"categories"}
  /\ Len(analysis[1].suggestedChips) = 8
  /\ analysis[1].suggestedChips[8] = "Budget Options"

\* a dietary and an occasion concept were both detected in the query
bothConceptsDetected ==
  concepts # <<>> /\ concepts[1].dietary # <<>> /\ concepts[1].occasions # <<>>

\* C23: in a SEMANTIC request with an embedding the concept-combination
\* sub-search is issued only when a dietary and an occasion concept were both
\* detected; otherwise there is no such call and no such branch, and the
\* response is the fusion of the vector and keyword branches alone, so no
\* product enters fusion with the concept weight 0.15
C23_CombinationOnlyForBothConcepts ==
  (strategyIs(SEMANTIC) /\ carriesEmbedding) =>
    /\ (CallsTo("conceptCombination") # {} \/ branches.concept.status # "absent")
         => bothConceptsDetected
    /\ ~bothConceptsDetected =>
         /\ branches.concept = NoBranch
         /\ finished =>
              SkuScores(response[1].results) =
                SkuScores(mergeSemanticResults(branches.vector.value, branches.keyword.value,
                                               <<>>, concepts[1]))

\* both concepts were detected, the combination search was issued and its
\* hits entered the fusion
C23_Witness ==
  /\ strategyIs(SEMANTIC) /\ carriesEmbedding /\ finished
  /\ bothConceptsDetected
  /\ CallsTo("conceptCombination") # {}
  /\ branches.concept.value # <<>>
  /\ Skus(branches.concept.value) \subseteq Skus(response[1].results)

\* the filter the request's search would carry with stockPriority disabled
filterWithoutStockPriority ==
  buildFilterString(analysis[2].extractedFilters, request.filters, FALSE)

\* C24: enabling stockPriority only reorders the results: the backend search
\* carries the same filter as with stockPriority disabled, so it is not
\* restricted to in-stock products
C24_StockPriorityOnlyReorders ==
  (request.stockPriority /\ calls # <<>>) =>
     calls[1].filter_by = filterWithoutStockPriority

\* C25: the strategy and the chips of every successful response are those of
\* the request's classification, whichever executor produced the results
C25_StrategyIsTheClassifiedOne ==
  (finished /\ response[1].success) =>
     /\ response[1].strategy = analysis[1].strategy
     /\ response[1].suggestedChips = analysis[1].suggestedChips

\* a SEMANTIC request without embedding whose products came from the keyword
\* search is reported as semantic
C25_Witness ==
  /\ strategyIs(SEMANTIC)
  /\ ~carriesEmbedding
  /\ finished
  /\ response[1].success
  /\ response[1].results # <<>>
  /\ CallsTo("vector") = {}
  /\ Skus(response[1].results) \subseteq BackendSkus("keyword")
  /\ response[1].strategy = SEMANTIC

\* an EXACT request whose products came from the fallback search is reported
\* as exact
C25_FallbackWitness ==
  /\ strategyIs(EXACT_MATCH)
  /\ finished
  /\ response[1].success
  /\ response[1].results # <<>>
  /\ Skus(response[1].results) \subseteq BackendSkus("fallback")
  /\ BackendSkus("exact") = {}
  /\ response[1].strategy = EXACT_MATCH

\* C26: a successful response never holds more products than the effective
\* limit min(limit or DEFAULT_LIMIT, MAX_LIMIT), whatever the strategy
C26_ResultsWithinLimit ==
  (finished /\ response[1].success) => Len(response[1].results) <= options.limit

\* the vector hits and the products scored from them, index by index
vectorHits == calls[1].reply.hits

vectorProducts == branches.vector.value

\* C27: of two vector hits with the same sales count, under the same sales
\* boost, the one at the smaller distance never gets the lower score
C27_CloserHitScoresNoLower ==
  (pc = "scored") =>
     \A i, j \in 1..Len(vectorHits) :
        (/\ vectorHits[i].document.sales_count = vectorHits[j].document.sales_count
         /\ vectorHits[i].vector_distance < vectorHits[j].vector_distance)
        => vectorProducts[i].score >= vectorProducts[j].score

Sign(n) == IF n < 0 THEN 0 - 1 ELSE IF n > 0 THEN 1 ELSE 0

\* C28: the comparator of the ranking step is consistent on every pair of
\* products it is given: the two directions of a comparison have opposite
\* signs or are both zero, also when is_in_stock is absent
C28_ComparatorIsConsistent ==
  ranked =>
    \A i, j \in 1..Len(strategyResults) :
       Sign(compareStock(strategyResults[i], strategyResults[j]))
         = 0 - Sign(compareStock(strategyResults[j], strategyResults[i]))

\* the invocations of handleSearch that have not reached their end
searchesInFlight == {i \in 1..Len(pc) : pc[i] # "done"}

\* every search issued on the page has completed and no re-run is scheduled
allSearchesCompleted == request # <<>> /\ searchesInFlight = {} /\ calls = <<>>

\* the answer the most recently issued search got
latestData == analysis[Len(request)]

\* C30: loading is false only when no search is in flight, and once all
\* searches have completed the page displays the results, the strategy and
\* the chips of the most recently issued search
C30_LatestSearchIsDisplayed ==
  /\ ~response.loading => searchesInFlight = {}
  /\ (allSearchesCompleted /\ latestData.success) =>
       /\ response.results = latestData.results
       /\ response.searchStrategy = latestData.strategy
       /\ response.suggestedChips = latestData.suggestedChips

====
